---------------------------- MODULE MCGroupTree -----------------------------
(***************************************************************************)
(* Device groups and sites for TLC, where the code says that it prevents a *)
(* circular reference.                                                     *)
(***************************************************************************)
EXTENDS GroupTree, TLC

CONSTANTS a, A, c     \* characters

\* LIKE takes lower and upper case for the same.
AlikeChars == {<<a, A>>, <<A, a>>}

\* A name, the same in the other case, and another.
OneLetterNames == {<<a>>, <<A>>, <<c>>}

\* Groups are interchangeable.
GroupSymmetry == Permutations(Groups)
=============================================================================
