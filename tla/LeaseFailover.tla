---------------------------- MODULE LeaseFailover ----------------------------
(***************************************************************************)
(* How fast the lease changes hands: LeaderLease with a clock that only    *)
(* observes.  gap is the time during which some instance has been up but   *)
(* no such instance has believed it leads, counted to just over GapLimit.  *)
(* It starts again when a command breaks, and when an instance goes down   *)
(* that has the lease or a command under way: what that leaves behind may  *)
(* be a fresh lease that nobody knows of.                                  *)
(***************************************************************************)
EXTENDS LeaderLease, TLC

VARIABLE gap

\* A command under way may still set the lease, or extend it, to its whole TTL.
\* When that is over, a candidate's timer must fire and its command settle; and
\* when an instance that comes up just then is faster, its own must too.
GapLimit == LeaseTtl + RenewInterval + MaxLag + 3 * MaxRtt

Led == \E p \in Up : leader[p]
Claims(p) == key = p \/ calls[p] # <<>>

GapInit == Init /\ gap = 0

GapNext ==
  \/ /\ Step
     /\ gap' = IF Led' \/ faults' # faults \/ \E p \in Up : p \notin Up' /\ Claims(p) THEN 0 ELSE gap
  \/ /\ Tick
     /\ gap' = CASE Up = {} \/ Led  -> 0
                 [] gap > GapLimit -> gap
                 [] OTHER          -> gap + 1

GapSpec == GapInit /\ [][GapNext]_<<vars, gap>>

\* The deployment's timing: a command has settled before the timer fires again,
\* and before a lease it took is over.
Settling == MaxRtt < RenewInterval /\ MaxRtt < LeaseTtl

\* A leader that crashed, shut down, or was refused its own lease, is replaced:
\* an environment that has an instance up finds a leader within GapLimit of the
\* last command that broke and the last process that went down with the lease or
\* asking for it.  leaderLease.ts promises less: "another instance will acquire within
\* one lease TTL" (l. 12; also l. 35).  The code does not keep that: nothing tells a
\* candidate that the key has lapsed, it asks once in RenewInterval, so that with
\* MaxLag = MaxRtt = 0 a gap still outlasts LeaseTtl, by up to RenewInterval.
GapBounded == gap <= GapLimit

\* Instances are interchangeable: no action and no property names one.
Symmetry == Permutations(Instances)

=============================================================================
