----------------------------- MODULE ResizePlan -----------------------------
(***************************************************************************)
(* _generate_resize_plan of src/src/api/routes/clone.py: how a clone fits  *)
(* the partitions of the source disk to a target disk of another size.     *)
(* The module's one step computes the plan of an arbitrary request.        *)
(***************************************************************************)
EXTENDS Integers, Sequences

CONSTANTS
    MaxPartitions,  \* bound on the partitions of the source disk
    MaxSize,        \* bound on the size of a partition
    MaxDisk,        \* bound on the size of a disk
    NoMinimum       \* min_size_bytes is NULL

ASSUME PlanAssumption ==
    /\ MaxPartitions \in Nat /\ MaxSize \in Nat /\ MaxDisk \in Nat
    /\ NoMinimum \notin Int

VARIABLES
    request,   \* the disks and the resize mode
    plan       \* the plan, or <<>> before it is computed

planVars == <<request, plan>>

\* An entry of partitions_json.
Partition ==
    [ size : 0..MaxSize,
      min  : (0..MaxSize) \union {NoMinimum},
      can  : BOOLEAN,       \* can_shrink, which becomes can_resize
      fs   : BOOLEAN ]      \* a file system that can be grown

\* sum(...), and the sums the loops come through.
Sums(f) == LET s[i \in 0..Len(f)] == IF i = 0 THEN 0 ELSE s[i - 1] + f[i] IN s
SumOf(f) == Sums(f)[Len(f)]

Sizes(parts) == [i \in DOMAIN parts |-> parts[i].size]

\* shrink_potential
Potential(p) ==
    IF p.can /\ p.min # NoMinimum /\ p.size > p.min THEN p.size - p.min ELSE 0

Potentials(parts) == [i \in DOMAIN parts |-> Potential(parts[i])]

\* The last partition that can be grown, 0 if there is none.
Growable(parts) ==
    LET S == {i \in DOMAIN parts : parts[i].can /\ parts[i].fs}
    IN  IF S = {} THEN 0 ELSE CHOOSE i \in S : \A j \in S : j <= i

\* remaining_to_shrink when the loop, which runs from the last partition to the
\* first, is done with the partitions after i.
Remaining(parts, amount) ==
    LET after[i \in 0..Len(parts)] ==
          IF i = Len(parts) THEN amount
          ELSE LET left == after[i + 1]
                   pot == Potential(parts[i + 1])
               IN  IF pot < left THEN left - pot ELSE 0
    IN  after

\* The new sizes when the target is smaller by amount.
Shrunk(parts, amount) ==
    [i \in DOMAIN parts |->
       LET left == Remaining(parts, amount)[i]
           pot == Potential(parts[i])
       IN  parts[i].size - (IF pot < left THEN pot ELSE left)]

\* The new sizes when the target is larger by extra.
Grown(parts, extra) ==
    [i \in DOMAIN parts |->
       parts[i].size + (IF i = Growable(parts) THEN extra ELSE 0)]

\* Mutation: the minimum sizes are not looked at.
FeasibleBySize(parts, amount) == SumOf(Sizes(parts)) >= amount

\* total_shrinkable >= size_to_reduce
Feasible(parts, amount) == SumOf(Potentials(parts)) >= amount

GenerateResizePlan(parts, from, to, mode) ==
    CASE to >= from ->
           [ feasible |-> TRUE,
             sizes |-> IF mode = "grow_target" THEN Grown(parts, to - from)
                                               ELSE Sizes(parts) ]
      [] to < from /\ Feasible(parts, from - to) ->
           [feasible |-> TRUE, sizes |-> Shrunk(parts, from - to)]
      [] OTHER ->
           [feasible |-> FALSE, sizes |-> Sizes(parts)]

-----------------------------------------------------------------------------
PlanInit == request = <<>> /\ plan = <<>>

\* analyze_clone_session, for a source disk that holds its partitions.
AnalyzeCloneSession ==
    /\ plan = <<>>
    /\ \E n \in 0..MaxPartitions :
         \E parts \in [1..n -> Partition], from, to \in 0..MaxDisk,
            mode \in {"none", "shrink_source", "grow_target"} :
            /\ SumOf(Sizes(parts)) <= from
            /\ request' = [parts |-> parts, from |-> from, to |-> to, mode |-> mode]
            /\ plan' = <<GenerateResizePlan(parts, from, to, mode)>>

PlanNext == AnalyzeCloneSession

PlanSpec == PlanInit /\ [][PlanNext]_planVars

-----------------------------------------------------------------------------
(* Properties                                                               *)

\* A plan called feasible fits: the partitions that fitted the source disk fit
\* the target disk, and none is smaller than its minimum or changed at all
\* unless it can be resized.
PlanFits ==
    plan # <<>> /\ plan[1].feasible =>
        LET new == plan[1].sizes IN
        /\ SumOf(new) <= request.to
        /\ \A i \in DOMAIN new :
             LET p == request.parts[i] IN
             new[i] # p.size => /\ p.can
                                /\ p.min # NoMinimum \/ new[i] > p.size
                                /\ new[i] < p.size => new[i] >= p.min

\* Ways to shrink the partitions, each by at most its potential.
Reductions(parts) ==
    {r \in [DOMAIN parts -> 0..MaxSize] :
       \A i \in DOMAIN parts : r[i] <= Potential(parts[i])}

\* A smaller target is refused only when no choice of reductions makes up for
\* the difference of the disks, and a plan never takes away more than that
\* difference.  Space of the source disk that no partition uses is not counted
\* towards it: a disk may be refused whose partitions would fit as they are.
PlanIsTight ==
    plan # <<>> /\ request.to < request.from =>
        LET need == request.from - request.to
            cut == SumOf(Sizes(request.parts)) - SumOf(plan[1].sizes)
        IN  /\ plan[1].feasible <=>
                 \E r \in Reductions(request.parts) : SumOf(r) = need
            /\ plan[1].feasible => cut = need

\* A plan fits the target, and it is refused only when the partitions cannot
\* give up the difference of the disks: what the loop over the partitions
\* computes, against every other way to shrink them.
PlanIsExact == PlanFits /\ PlanIsTight
=============================================================================
