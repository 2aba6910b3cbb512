------------------------------ MODULE ScanJobs ------------------------------
(***************************************************************************)
(* What the scan queue promises, seen from outside: a job that the broker  *)
(* accepted is taken by one trawler, which posts its results once, and the *)
(* backend records them on one image; at any point before that the job may *)
(* be lost, several at a time, and a lost or recorded job never comes      *)
(* back.  Nothing but a recorded job makes an image scanned.               *)
(***************************************************************************)
EXTENDS Naturals

CONSTANTS Jobs, Images

VARIABLES
  job,      \* per job: how far it is
  scanned   \* images that have been scanned

jobVars == <<job, scanned>>

JobStates == {"unsent", "waiting", "scanning", "saving", "recorded", "lost"}

JobInit ==
  /\ job = [j \in Jobs |-> "unsent"]
  /\ scanned = {}

Advance(j, from, to) ==
  /\ job[j] = from
  /\ job' = [job EXCEPT ![j] = to]

Accept(j) == Advance(j, "unsent", "waiting") /\ UNCHANGED scanned
Take(j) == Advance(j, "waiting", "scanning") /\ UNCHANGED scanned
Post(j) == Advance(j, "scanning", "saving") /\ UNCHANGED scanned

Record(j, i) ==
  /\ Advance(j, "saving", "recorded")
  /\ scanned' = scanned \cup {i}

Lose(S) ==
  /\ \A j \in S : job[j] \in {"waiting", "scanning", "saving"}
  /\ job' = [j \in Jobs |-> IF j \in S THEN "lost" ELSE job[j]]
  /\ UNCHANGED scanned

JobNext ==
  \/ \E j \in Jobs : Accept(j) \/ Take(j) \/ Post(j)
  \/ \E j \in Jobs : \E i \in Images : Record(j, i)
  \/ \E S \in SUBSET Jobs : Lose(S)

JobSpec == JobInit /\ [][JobNext]_jobVars
=============================================================================
