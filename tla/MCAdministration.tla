-------------------------- MODULE MCAdministration --------------------------
(***************************************************************************)
(* What admins change through the API, for TLC: groups, iSCSI LUNs, user   *)
(* accounts and the commands left for a node.                              *)
(* They share no state; a behaviour is one of one of them, and the others  *)
(* stay as they begin.                                                     *)
(***************************************************************************)
EXTENDS GroupTree, IscsiLuns, UserAccounts, NodeCommands, TLC

CONSTANTS a, A, b     \* characters

\* LIKE takes lower and upper case for the same.
AlikeChars == {<<a, A>>, <<A, a>>}

\* A name, the same in the other case, and one that begins with the first.
GroupNames == {<<a>>, <<A>>, <<a, b>>}

VARIABLE on     \* the part that runs

administrationVars == <<groupVars, lunVars, accountVars, commandVars, on>>

Init ==
    /\ on \in {"groups", "luns", "accounts", "commands"}
    /\ GroupTreeInit /\ LunsInit /\ CommandInit
    /\ AccountsInit /\ (on # "accounts" => user[CHOOSE u \in Users : TRUE].exists)

Next ==
    \/ on = "groups" /\ GroupTreeNext /\ UNCHANGED <<lunVars, accountVars, commandVars, on>>
    \/ on = "luns" /\ LunsNext /\ UNCHANGED <<groupVars, accountVars, commandVars, on>>
    \/ on = "accounts" /\ AccountsNext /\ UNCHANGED <<groupVars, lunVars, commandVars, on>>
    \/ on = "commands" /\ CommandNext /\ UNCHANGED <<groupVars, lunVars, accountVars, on>>

Spec == Init /\ [][Next]_administrationVars

\* What is past stays so, and of a target after two of an overlap, a rename and
\* a restart at most StuckOnlyByRestart says anything, which LunsTrue proves of
\* every state: such states are not followed further.
LunsOfInterest == Cardinality(past) <= 1

\* Nor does any say much of groups after a row was rewritten by mistake.
GroupsOfInterest == ~mistaken

\* The handlers on LUNs are interchangeable, and so are groups.
AdminSymmetry == Permutations(Slots) \union Permutations(Groups)
=============================================================================
