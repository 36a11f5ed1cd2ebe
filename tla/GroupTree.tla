----------------------------- MODULE GroupTree -----------------------------
(***************************************************************************)
(* Device groups and sites (src/src/api/routes/groups.py, sites.py; class  *)
(* DeviceGroup of src/src/db/models.py).                                   *)
(*                                                                         *)
(* A row names its parent and repeats its place in the tree as a path and  *)
(* a depth.  A group that moves or is renamed rewrites the rows whose path *)
(* begins with its own and a slash.  They are found with LIKE, for which   *)
(* characters are alike that are different ("_" is any character, and on   *)
(* SQLite "a" is "A"), and rewritten with str.replace, which changes the   *)
(* first place where the old path comes, not the beginning.                *)
(*                                                                         *)
(* Names and paths are sequences of characters, and a name may be any.     *)
(* Left out is "%", which LIKE takes for any characters.  Requests are     *)
(* taken one at a time.                                                    *)
(***************************************************************************)
EXTENDS Integers, Sequences, FiniteSets

CONSTANTS
    Groups, NoGroup,
    Chars, Slash,
    Names,
    Alike,          \* pairs <<x, y>> of characters: LIKE takes y for x
    GroupNodes,     \* nodes
    MaxPath         \* bound: the length of a path, and depths

ASSUME GroupTreeAssumption ==
    /\ NoGroup \notin Groups /\ IsFiniteSet(Groups)
    /\ Slash \in Chars /\ Names \subseteq Seq(Chars) /\ Names # {}
    /\ Alike \subseteq Chars \X Chars
    /\ MaxPath \in Nat \ {0}

VARIABLES
    group,      \* the rows; a row that is not there has exists = FALSE
    groupOf,    \* Node.group_id
    mistaken    \* history: a row was rewritten that is not below the group

groupVars == <<group, groupOf, mistaken>>

AnyGroup == Groups \union {NoGroup}

Row ==
    [ exists : BOOLEAN, is_site : BOOLEAN, name : Names, parent : AnyGroup,
      path : Seq(Chars), depth : Int ]

NoRow ==
    [ exists |-> FALSE, is_site |-> FALSE, name |-> CHOOSE x \in Names : TRUE,
      parent |-> NoGroup, path |-> <<>>, depth |-> 0 ]

GroupTreeInit ==
    /\ group = [g \in Groups |-> NoRow]
    /\ groupOf = [n \in GroupNodes |-> NoGroup]
    /\ mistaken = FALSE

Existing == {g \in Groups : group[g].exists}
Free(name) == \A g \in Existing : group[g].name # name
Children(g) == {c \in Existing : group[c].parent = g}

\* The path and the depth of a row of this name under this parent.
PathUnder(p, name) == (IF p = NoGroup THEN <<>> ELSE group[p].path) \o (<<Slash>> \o name)
DepthUnder(p) == IF p = NoGroup THEN 0 ELSE group[p].depth + 1

-----------------------------------------------------------------------------
(* Paths.                                                                   *)

\* path.startswith(start + "/")
StartsWith(path, start) ==
    /\ Len(path) > Len(start)
    /\ \A i \in DOMAIN start : path[i] = start[i]
    /\ path[Len(start) + 1] = Slash

\* DeviceGroup.path.startswith(start + "/") in the database.
LikeStartsWith(path, start) ==
    /\ Len(path) > Len(start)
    /\ \A i \in DOMAIN start : path[i] = start[i] \/ <<start[i], path[i]>> \in Alike
    /\ path[Len(start) + 1] = Slash

Occurs(path, old, i) ==
    /\ i + Len(old) - 1 <= Len(path)
    /\ \A j \in DOMAIN old : path[i + j - 1] = old[j]

\* path.replace(old, new, 1)
Replace(path, old, new) ==
    IF \E i \in DOMAIN path : Occurs(path, old, i)
    THEN LET i == CHOOSE i \in DOMAIN path :
                     Occurs(path, old, i) /\ \A k \in 1 .. (i - 1) : ~Occurs(path, old, k)
         IN  SubSeq(path, 1, i - 1) \o new \o SubSeq(path, i + Len(old), Len(path))
    ELSE path

\* The rows a move or a new name of g rewrites ...
Found(g) == {c \in Existing : LikeStartsWith(group[c].path, group[g].path)}

\* ... and those of them that are not below g: the path of one does not begin
\* with that of g, or begins so while the parent is another's.
Strays(g) ==
    {c \in Found(g) : \/ ~StartsWith(group[c].path, group[g].path)
                      \/ group[c].parent \notin Found(g) \union {g, NoGroup}}

\* Mutation: the rows below are left as they are.
RewrittenNone(g, new, diff) == group

\* The rows after those found were rewritten.
Rewritten(g, new, diff) ==
    [c \in Groups |->
       IF c \in Found(g)
       THEN [group[c] EXCEPT !.path = Replace(@, group[g].path, new), !.depth = @ + diff]
       ELSE group[c]]

\* Bound.
Fits(rows) == \A c \in Groups : Len(rows[c].path) <= MaxPath /\ rows[c].depth \in -1 .. MaxPath

-----------------------------------------------------------------------------
(* Groups and sites.  A site has sites above it when it comes through its   *)
(* own routes, which look at nothing but sites; the routes of groups take   *)
(* any row.                                                                 *)

Creates(g, name, p, site) ==
    /\ ~group[g].exists /\ Free(name) /\ name # <<>>
    /\ p # NoGroup => group[p].exists /\ (site => group[p].is_site)
    /\ Len(PathUnder(p, name)) <= MaxPath
    /\ group' = [group EXCEPT ![g] = [exists |-> TRUE, is_site |-> site, name |-> name,
                                      parent |-> p, path |-> PathUnder(p, name),
                                      depth |-> DepthUnder(p)]]
    /\ UNCHANGED <<groupOf, mistaken>>

CreateGroup(g, name, p) == Creates(g, name, p, FALSE)
CreateSite(g, name, p) == Creates(g, name, p, TRUE)

\* Not under itself or a descendant.
Movable(g, p) == p # g /\ (p # NoGroup => group[p].exists /\ ~StartsWith(group[p].path, group[g].path))

\* update_group with a parent, and with or without a new name.
UpdateGroup(g, name, p) ==
    LET new == PathUnder(p, name)
        diff == DepthUnder(p) - group[g].depth
        rows == Rewritten(g, new, diff)
    IN  /\ group[g].exists /\ (name # group[g].name => Free(name))
        /\ Movable(g, p)
        /\ Fits(rows) /\ Len(new) <= MaxPath
        /\ group' = [rows EXCEPT ![g] = [group[g] EXCEPT !.name = name, !.parent = p,
                                                        !.path = new, !.depth = DepthUnder(p)]]
        /\ mistaken' = (mistaken \/ Strays(g) # {})
        /\ UNCHANGED groupOf

\* update_site asks that the new parent is a site.
UpdateSite(g, name, p) ==
    /\ group[g].is_site /\ (p # NoGroup => group[p].is_site)
    /\ UpdateGroup(g, name, p)

\* Both of them with a new name and no parent.
Renames(g, name) ==
    LET new == PathUnder(group[g].parent, name)
        rows == Rewritten(g, new, 0)
    IN  /\ group[g].exists /\ (name # group[g].name => Free(name))
        /\ Fits(rows) /\ Len(new) <= MaxPath
        /\ group' = [rows EXCEPT ![g] = [group[g] EXCEPT !.name = name, !.path = new]]
        /\ mistaken' = (mistaken \/ Strays(g) # {})
        /\ UNCHANGED groupOf

\* The mapper clears the columns of the relationships "children" and "nodes";
\* paths and depths stay.
Deletes(g) ==
    /\ group' = [c \in Groups |->
                   IF c = g THEN NoRow
                   ELSE IF c \in Children(g) THEN [group[c] EXCEPT !.parent = NoGroup]
                   ELSE group[c]]
    /\ groupOf' = [n \in GroupNodes |-> IF groupOf[n] = g THEN NoGroup ELSE groupOf[n]]
    /\ UNCHANGED mistaken

DeleteGroup(g) ==
    /\ group[g].exists
    /\ Children(g) = {} /\ \A n \in GroupNodes : groupOf[n] # g
    /\ Deletes(g)

\* Only child sites are in the way, and nodes whose home_site_id is the site,
\* which are left out: they never change, except for a refused request.
DeleteSite(g) ==
    /\ group[g].exists /\ group[g].is_site
    /\ \A c \in Children(g) : ~group[c].is_site
    /\ Deletes(g)

\* update_node and bulk_assign_group; NoGroup takes the node out.
AssignGroup(n, g) ==
    /\ g # NoGroup => group[g].exists
    /\ groupOf' = [groupOf EXCEPT ![n] = g]
    /\ UNCHANGED <<group, mistaken>>

GroupTreeNext ==
    \/ \E g \in Groups, name \in Names, p \in AnyGroup :
          \/ CreateGroup(g, name, p) \/ CreateSite(g, name, p)
          \/ UpdateGroup(g, name, p) \/ UpdateSite(g, name, p)
    \/ \E g \in Groups, name \in Names : Renames(g, name)
    \/ \E g \in Groups : DeleteGroup(g) \/ DeleteSite(g)
    \/ \E n \in GroupNodes, g \in AnyGroup : AssignGroup(n, g)

GroupTreeSpec == GroupTreeInit /\ [][GroupTreeNext]_groupVars

\* The rows that compute_effective_settings and get_group_ancestors meet, each
\* the parent of the one before.
WalksUp(walk) == \A i \in 1 .. Cardinality(Groups) : group[walk[i - 1]].parent = walk[i]

-----------------------------------------------------------------------------
(* Properties                                                               *)

\* Every variable has its type.
GroupTreeTypeOK ==
    /\ group \in [Groups -> Row]
    /\ groupOf \in [GroupNodes -> AnyGroup]
    /\ mistaken \in BOOLEAN

\* The walk up the tree of compute_effective_settings and get_group_ancestors
\* ends: no group is its own ancestor, so none meets more rows than there are.
\* The routes compare paths to prevent it, not parents.  "Prevent circular
\* reference", the code says; it does not hold.
NoCircularReference ==
    ~\E walk \in [0 .. Cardinality(Groups) -> Existing] : WalksUp(walk)

\* The path of a group is its parent's with its name added: "Update
\* descendants' paths" is what the code means to do when a group moves or is
\* renamed.  It does not hold, for the rows found are not all descendants.
PathsFollow ==
    \A g \in Existing :
        group[g].parent # NoGroup => group[g].path = PathUnder(group[g].parent, group[g].name)

\* The depth of a group is its parent's and one.
DepthsFollow ==
    \A g \in Existing :
        group[g].parent # NoGroup => group[g].depth = DepthUnder(group[g].parent)

\* Until a row was rewritten that is not below the group, all three hold,
\* whatever was created, moved, renamed and deleted above a row, in whatever
\* order, and whichever name begins another.
FollowUnlessMistaken == ~mistaken => NoCircularReference /\ PathsFollow /\ DepthsFollow

\* The parent of a group and the group of a node are there: deleting a site
\* takes it out of the rows that name it.
ReferencesExist ==
    /\ \A g \in Existing : group[g].parent # NoGroup => group[g].parent \in Existing
    /\ \A n \in GroupNodes : groupOf[n] # NoGroup => groupOf[n] \in Existing

\* The rows make a tree, and what they repeat of their parents agrees with it.
TreeIsSound == GroupTreeTypeOK /\ ReferencesExist /\ FollowUnlessMistaken
=============================================================================
