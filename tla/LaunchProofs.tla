----------------------------- MODULE LaunchProofs -----------------------------
(***************************************************************************)
(* Theorems about the launch of an item's session, for any number of Run   *)
(* and Take-over requests, any cap, any numbers of polls and any number of *)
(* faults: a process has a request that waits for it and a bind loop its   *)
(* bound, the sweep gives a launch its marker back, and a Run blames a     *)
(* take-over only for its own end.                                         *)
(***************************************************************************)
EXTENDS Launch, TLAPS

-----------------------------------------------------------------------------
(* The inductive invariant *)

RunSteps == {"idle", "begin", "mark", "work", "unbound", "turn", "returned", "undo", "fail_clear",
             "fail_finish", "verdict", "set_id", "clear", "invalidate", "done"}
TakeSteps == {"idle", "shown", "finish", "mark", "clear", "invalidate", "bind", "done"}
Restores == {"rec_restore", "stale_restore", "ttl_restore", "re_restore"}
SweepSteps == Restores \cup
  {"boot", "reconcile", "rec_finish", "pass", "stale", "stale_marker", "ttl", "ttl_clear", "finished",
   "present", "evict", "reclear", "re_evict"}

Sessions == Runs \cup {None}
Markers == {Absent, Fresh, Expired}
Takes == [at : TakeSteps, id : Sessions, polls : 0..(Polls - 1), cleared : BOOLEAN, stable : Nat]
Sweeps == [at : SweepSteps, listed : Sessions]

FileTypes == id \in Sessions /\ marker \in Markers /\ cache \in Markers /\ faults \in Nat
RegTypes == rec \in {None, "in_flight", "finished"} /\ taken \in BOOLEAN

Types ==
  /\ FileTypes /\ RegTypes /\ procs \in SUBSET Runs /\ pc \in [Runs -> RunSteps]
  /\ take \in [Takers -> Takes] /\ sweep \in Sweeps
  /\ claimed \in SUBSET Runs /\ wiped \in BOOLEAN

\* A process has a request that waits for it.
Waited == \A r \in procs : pc[r] \in {"unbound", "turn"}

\* A take-over mark is about every launch that is under way.
Claims == taken => \A r \in Runs : pc[r] \notin Ended \cup {"begin"} => r \in claimed

IInv == Types /\ Waited /\ MarkerRestored /\ Claims

-----------------------------------------------------------------------------
(* What the operators do *)

\* The bounds, and that None is neither a session nor a record.
LEMMA Constants == /\ MaxRuns \in Nat /\ Polls \in Nat \ {0} /\ MaxFaults \in Nat
                   /\ None \notin Runs /\ None # "in_flight" /\ None # "finished"
BY LaunchAssumption DEF LaunchAssumption, Runs

\* The registry's operations keep its types, and only Begin puts a launch in flight.
LEMMA RegistryOperations ==
  ASSUME RegTypes
  PROVE  /\ Begin => RegTypes' /\ taken' = FALSE
         /\ Finish \/ Evict \/ EvictIfFinished \/ UNCHANGED regVars =>
              RegTypes' /\ taken' = taken /\ (rec' = "in_flight" => rec = "in_flight")
BY Constants DEF RegTypes, Begin, Finish, Evict, EvictIfFinished, regVars

\* So do the calls that write the file.
LEMMA FileOperations ==
  ASSUME FileTypes, cache' = cache
  PROVE  /\ SetMarker \/ ClearMarker \/ Fails \/ UNCHANGED <<fileVars, faults>> => FileTypes'
         /\ \A s \in Sessions : SetID(s) => FileTypes'
<1>1. SetMarker \/ ClearMarker \/ Fails \/ UNCHANGED <<fileVars, faults>> => FileTypes'
  BY DEF FileTypes, SetMarker, ClearMarker, Fails, Fault, fileVars, Markers
<1>2. ASSUME NEW s \in Sessions, SetID(s) PROVE FileTypes'
  BY <1>2 DEF FileTypes, SetID
<1> QED
  BY <1>1, <1>2

\* A request's step: its own pc moves, and it is no longer claimed once it is done.
LEMMA AtStep ==
  ASSUME Types, NEW r \in Runs, NEW p \in RunSteps, At(r, p)
  PROVE  /\ pc' \in [Runs -> RunSteps] /\ claimed' \in SUBSET Runs
         /\ pc'[r] = p /\ \A q \in Runs \ {r} : pc'[q] = pc[q] /\ (q \in claimed => q \in claimed')
         /\ p # "done" /\ r \in claimed => r \in claimed'
BY DEF Types, At

\* What a step of a request leaves of Waited and Claims, given where the request went.
LEMMA RunKeeps ==
  ASSUME Types, Waited, Claims, NEW r \in Runs, NEW p \in RunSteps, At(r, p),
         procs' \subseteq procs \cup {r}, r \in procs' => p \in {"unbound", "turn"},
         \/ taken' = FALSE
         \/ taken' = taken /\ (p \notin Ended \cup {"begin"} => pc[r] \notin Ended \cup {"begin"})
  PROVE  Waited' /\ Claims'
<1>1. Waited'
  BY AtStep DEF Waited, Types
<1>2. Claims'
  <2> SUFFICES ASSUME taken', NEW q \in Runs, pc'[q] \notin Ended \cup {"begin"} PROVE q \in claimed'
    BY DEF Claims
  <2>1. taken
    OBVIOUS
  <2>2. CASE q = r
    <3>1. p # "done" /\ r \in claimed
      BY <2>1, <2>2, AtStep DEF Claims, Ended
    <3> QED
      BY <2>2, <3>1, AtStep
  <2>3. CASE q # r
    BY <2>1, <2>3, AtStep DEF Claims
  <2> QED
    BY <2>2, <2>3
<1> QED
  BY <1>1, <1>2

\* A step that puts no launch in flight, leaves the sweep alone and wipes no marker.
LEMMA RestoredKeeps ==
  ASSUME MarkerRestored, rec' = "in_flight" => rec = "in_flight", sweep' = sweep, wiped' = FALSE \/ wiped' = wiped
  PROVE  MarkerRestored'
BY DEF MarkerRestored

-----------------------------------------------------------------------------
(* The Run requests *)

\* A step of a request, from what it does to the file, the registry and the process.
LEMMA RunInv ==
  ASSUME IInv, NEW r \in Runs, NEW p \in RunSteps, At(r, p), FileTypes', RegTypes', UNCHANGED <<take, sweep>>,
         procs' \subseteq procs \cup {r}, r \in procs' => p \in {"unbound", "turn"},
         \/ taken' = FALSE
         \/ taken' = taken /\ (p \notin Ended \cup {"begin"} => pc[r] \notin Ended \cup {"begin"}),
         wiped' = FALSE \/ (wiped' = wiped /\ (rec' = "in_flight" => rec = "in_flight"))
  PROVE  IInv'
<1>1. Types /\ Waited /\ Claims /\ MarkerRestored
  BY DEF IInv
<1>2. Waited' /\ Claims'
  BY <1>1, RunKeeps
<1>3. MarkerRestored'
  BY <1>1 DEF MarkerRestored
<1>4. pc' \in [Runs -> RunSteps] /\ claimed' \in SUBSET Runs
  BY <1>1, AtStep
<1>5. procs' \in SUBSET Runs /\ wiped' \in BOOLEAN /\ take' \in [Takers -> Takes] /\ sweep' \in Sweeps
  BY <1>1 DEF Types
<1>6. Types'
  BY <1>4, <1>5 DEF Types
<1> QED
  BY <1>2, <1>3, <1>6 DEF IInv

\* Every step of a Run request and of its turn keeps the invariant.
LEMMA RunStep == ASSUME IInv, NEW r \in Runs, Run(r) \/ WorkOn(r) PROVE IInv'
<1>a. FileTypes /\ RegTypes /\ procs \in SUBSET Runs /\ Waited
  BY DEF IInv, Types
<1>b. r \in procs => pc[r] \in {"unbound", "turn"}
  BY <1>a DEF Waited
<1>1. CASE RunAdmit(r)
  <2>1. PICK p \in {"done", "begin"} : At(r, p)
    BY <1>1 DEF RunAdmit
  <2>2. pc[r] = "idle" /\ UNCHANGED <<take, sweep, cache, fileVars, regVars, procs, faults, wiped>>
    BY <1>1 DEF RunAdmit, notRun
  <2>3. FileTypes' /\ RegTypes' /\ taken' = taken /\ rec' = rec
    BY <1>a, <2>2, FileOperations, RegistryOperations DEF regVars
  <2>4. p \in RunSteps /\ (p \notin Ended \cup {"begin"} => pc[r] \notin Ended \cup {"begin"})
    BY DEF RunSteps, Ended
  <2> QED
    BY <1>b, <2>1, <2>2, <2>3, <2>4, RunInv
<1>2. CASE RunBegin(r)
  <2>1. /\ pc[r] = "begin" /\ Begin /\ At(r, "mark") /\ wiped' = FALSE
        /\ UNCHANGED <<take, sweep, cache, fileVars, procs, faults>>
    BY <1>2 DEF RunBegin, notRun
  <2>2. FileTypes' /\ RegTypes' /\ taken' = FALSE
    BY <1>a, <2>1, FileOperations, RegistryOperations
  <2>3. "mark" \in RunSteps
    BY DEF RunSteps
  <2> QED
    BY <1>b, <2>1, <2>2, <2>3, RunInv
<1>3. CASE RunMark(r)
  <2>1. pc[r] = "mark" /\ UNCHANGED <<take, sweep, cache, procs>> /\ "work" \in RunSteps /\ "done" \in RunSteps
    BY <1>3 DEF RunMark, notRun, RunSteps
  <2>2. CASE SetMarker /\ At(r, "work") /\ UNCHANGED regVars
    <3>1. FileTypes' /\ RegTypes' /\ taken' = taken /\ wiped' = FALSE
      BY <1>a, <2>1, <2>2, FileOperations, RegistryOperations DEF SetMarker
    <3> QED
      BY <1>b, <2>1, <2>2, <3>1, RunInv DEF Ended
  <2>3. CASE Fails /\ Finish /\ At(r, "done") /\ UNCHANGED wiped
    <3>1. FileTypes' /\ RegTypes' /\ taken' = taken /\ (rec' = "in_flight" => rec = "in_flight")
      BY <1>a, <2>1, <2>3, FileOperations, RegistryOperations
    <3> QED
      BY <1>b, <2>1, <2>3, <3>1, RunInv DEF Ended
  <2> QED
    BY <1>3, <2>2, <2>3 DEF RunMark
<1>4. CASE WorkOn(r)
  <2>1. UNCHANGED <<take, sweep, cache, regVars, wiped>>
    BY <1>4 DEF WorkOn, notRun
  <2>2. RegTypes' /\ taken' = taken /\ rec' = rec
    BY <1>a, <2>1, RegistryOperations DEF regVars
  <2>3. PICK p \in RunSteps :
           /\ At(r, p) /\ pc[r] \notin Ended \cup {"begin"}
           /\ procs' \subseteq procs \cup {r} /\ (r \in procs' => p \in {"unbound", "turn"})
           /\ \/ Fails
              \/ UNCHANGED <<fileVars, faults>>
              \/ SetID(r)
              \/ SetID(None)
    <3>1. {"unbound", "turn", "returned", "undo", "fail_clear"} \subseteq RunSteps
      BY DEF RunSteps
    <3>2. CASE pc[r] = "work"
      BY <1>4, <3>1, <3>2 DEF WorkOn, Ended
    <3>3. CASE pc[r] \in {"unbound", "turn"} /\ r \in procs
      BY <1>4, <3>1, <3>3 DEF WorkOn, Ended
    <3>4. CASE pc[r] \in {"unbound", "turn"} /\ r \notin procs
      BY <1>4, <3>1, <3>4 DEF WorkOn, Ended
    <3>5. CASE pc[r] = "undo"
      BY <1>4, <1>b, <3>1, <3>5 DEF WorkOn, Ended
    <3> QED
      BY <1>4, <3>2, <3>3, <3>4, <3>5 DEF WorkOn
  <2>4. FileTypes'
    BY <1>a, <2>1, <2>3, FileOperations DEF Sessions
  <2> QED
    BY <2>1, <2>2, <2>3, <2>4, RunInv
<1>5. CASE RunFails(r)
  <2>1. UNCHANGED <<take, sweep, cache, procs, wiped>> /\ {"fail_finish", "verdict", "done"} \subseteq RunSteps
    BY <1>5 DEF RunFails, notRun, RunSteps
  <2>2. PICK p \in RunSteps : At(r, p) /\ pc[r] \in {"fail_clear", "fail_finish", "verdict"}
    BY <1>5, <2>1 DEF RunFails
  <2>3. FileTypes'
    BY <1>5, <1>a, <2>1, FileOperations DEF RunFails
  <2>4. RegTypes' /\ taken' = taken /\ (rec' = "in_flight" => rec = "in_flight")
    BY <1>5, <1>a, RegistryOperations DEF RunFails
  <2> QED
    BY <1>b, <2>1, <2>2, <2>3, <2>4, RunInv DEF Ended
<1>6. CASE RunReturns(r)
  <2>1. UNCHANGED <<take, sweep, procs, wiped>> /\ {"set_id", "clear", "done", "invalidate"} \subseteq RunSteps
    BY <1>6 DEF RunReturns, RunSteps
  <2>2. PICK p \in RunSteps : At(r, p) /\ pc[r] \in {"returned", "set_id", "clear", "invalidate"}
    BY <1>6, <2>1 DEF RunReturns
  <2>3. FileTypes'
    <3>1. CASE cache' = cache
      BY <1>6, <1>a, <3>1, FileOperations DEF RunReturns, Sessions
    <3>2. CASE cache' = marker /\ UNCHANGED <<fileVars, faults>>
      BY <1>a, <3>2 DEF FileTypes, fileVars
    <3> QED
      BY <1>6, <3>1, <3>2 DEF RunReturns
  <2>4. RegTypes' /\ taken' = taken /\ (rec' = "in_flight" => rec = "in_flight")
    BY <1>6, <1>a, RegistryOperations DEF RunReturns
  <2> QED
    BY <1>b, <2>1, <2>2, <2>3, <2>4, RunInv DEF Ended
<1> QED
  BY <1>1, <1>2, <1>3, <1>4, <1>5, <1>6 DEF Run

-----------------------------------------------------------------------------
(* The Take-over requests *)

\* A step of a take-over other than its mark.
LEMMA TakeInv ==
  ASSUME IInv, take' \in [Takers -> Takes], FileTypes', RegTypes', UNCHANGED <<pc, sweep, wiped>>,
         procs' \subseteq procs, rec' = "in_flight" => rec = "in_flight", UNCHANGED <<taken, claimed>>
  PROVE  IInv'
<1>1. Types'
  BY DEF IInv, Types
<1>2. Waited' /\ MarkerRestored' /\ Claims'
  BY DEF IInv, Waited, MarkerRestored, Claims
<1> QED
  BY <1>1, <1>2 DEF IInv

\* A take-over that has not begun, or has ended.
LEMMA UntakenTypes ==
  Untaken \in Takes /\ \A p \in {"idle", "done"} : [Untaken EXCEPT !.at = p] \in Takes
<1>1. 0 \in 0..(Polls - 1) /\ None \in Sessions
  BY Constants DEF Sessions
<1>2. Untaken \in Takes
  BY <1>1 DEF Untaken, Takes, TakeSteps
<1>3. ASSUME NEW p \in {"idle", "done"} PROVE [Untaken EXCEPT !.at = p] \in Takes
  <2>1. p \in TakeSteps
    BY DEF TakeSteps
  <2> QED
    BY <1>2, <2>1 DEF Takes
<1> QED
  BY <1>2, <1>3

\* The forms in which a take-over's own state changes keep its type.
LEMMA TakeForms ==
  ASSUME take \in [Takers -> Takes], NEW t \in Takers
  PROVE  /\ \A p \in TakeSteps : Step(t, p) => take' \in [Takers -> Takes]
         /\ Taken(t) => take' \in [Takers -> Takes]
         /\ \A p \in TakeSteps, s \in Sessions :
              take' = [take EXCEPT ![t].at = p, ![t].id = s] => take' \in [Takers -> Takes]
<1>1. take[t] \in Takes
  OBVIOUS
<1>2. \A p \in TakeSteps : [take[t] EXCEPT !.at = p] \in Takes
  BY <1>1 DEF Takes
<1>3. \A p \in TakeSteps, s \in Sessions : [take[t] EXCEPT !.at = p, !.id = s] \in Takes
  BY <1>1 DEF Takes
<1>4. [Untaken EXCEPT !.at = "done"] \in Takes
  BY UntakenTypes
<1> QED
  BY <1>2, <1>3, <1>4 DEF Step, Taken

\* A signal takes at most its process away.
LEMMA SigtermFacts ==
  ASSUME NEW s, faults \in Nat, SigtermPID(s)
  PROVE  procs' \subseteq procs /\ faults' \in Nat
BY DEF SigtermPID, Fault

\* The bind loop's poll counter stays below its bound.
LEMMA BindTypes ==
  ASSUME Types, NEW t \in Takers, TakeBind(t)
  PROVE  take' \in [Takers -> Takes]
<1> DEFINE same == id = take[t].id
           stays == IF same THEN take[t].stable + 1 ELSE 0
<1>1. take[t] \in Takes /\ take \in [Takers -> Takes]
  BY DEF Types
<1>2. CASE Taken(t)
  BY <1>1, <1>2, TakeForms
<1>3. CASE /\ ~BindEnds(t, stays)
           /\ take' = [take EXCEPT ![t].polls = @ + 1, ![t].cleared = @ \/ ~same, ![t].stable = stays]
  <2>1. take[t].polls \in 0..(Polls - 1) /\ take[t].stable \in Nat /\ Polls \in Nat
    BY <1>1, Constants DEF Takes
  <2>2. take[t].polls + 1 # Polls
    BY <1>3 DEF BindEnds
  <2>3. take[t].polls + 1 \in 0..(Polls - 1) /\ stays \in Nat
    BY <2>1, <2>2
  <2>4. (take[t].cleared \/ ~same) \in BOOLEAN
    OBVIOUS
  <2>5. [take[t] EXCEPT !.polls = take[t].polls + 1, !.cleared = take[t].cleared \/ ~same, !.stable = stays] \in Takes
    BY <1>1, <2>3, <2>4 DEF Takes
  <2>6. take' = [take EXCEPT ![t] = [take[t] EXCEPT !.polls = take[t].polls + 1, !.cleared = take[t].cleared \/ ~same,
                                                    !.stable = stays]]
    BY <1>1, <1>3
  <2> QED
    BY <1>1, <2>5, <2>6
<1> QED
  BY <1>2, <1>3 DEF TakeBind

\* Every step of a take-over keeps the invariant.
LEMMA TakeStep == ASSUME IInv, NEW t \in Takers, Take(t) PROVE IInv'
<1>a. FileTypes /\ RegTypes /\ Types /\ faults \in Nat /\ take \in [Takers -> Takes]
  BY DEF IInv, Types, FileTypes
<1>b. {"shown", "finish", "mark", "clear", "invalidate", "bind"} \subseteq TakeSteps
  BY DEF TakeSteps
<1>c. ASSUME UNCHANGED <<id, marker, cache>>, faults' \in Nat PROVE FileTypes'
  BY <1>a, <1>c DEF FileTypes
<1>d. ASSUME UNCHANGED regVars PROVE RegTypes' /\ taken' = taken /\ rec' = rec
  BY <1>a, <1>d DEF RegTypes, regVars
<1>1. CASE TakeShow(t)
  <2>1. take' \in [Takers -> Takes]
    <3>1. PICK s \in Sessions : s = id
      BY <1>a DEF FileTypes
    <3>2. take' = [take EXCEPT ![t].at = "shown", ![t].id = s]
      BY <1>1, <3>1 DEF TakeShow
    <3> QED
      BY <1>a, <1>b, <3>2, TakeForms
  <2>2. UNCHANGED <<id, marker, cache, regVars, procs, faults, claimed, wiped, pc, sweep>>
    BY <1>1 DEF TakeShow, notTake
  <2> QED
    BY <1>a, <1>c, <1>d, <2>1, <2>2, TakeInv
<1>2. CASE TakeLaunch(t)
  <2>1. UNCHANGED <<id, marker, cache, regVars, claimed, wiped, pc, sweep>>
    BY <1>2 DEF TakeLaunch, notTake
  <2>2. CASE Step(t, "finish") /\ procs' = procs /\ (faults' = faults \/ Fault)
    <3>1. take' \in [Takers -> Takes] /\ faults' \in Nat
      BY <1>a, <1>b, <2>2, TakeForms DEF Fault
    <3> QED
      BY <1>c, <1>d, <2>1, <2>2, <3>1, TakeInv
  <2>3. ASSUME NEW s \in procs \cup {take[t].id}, SigtermPID(s),
               take' = [take EXCEPT ![t].at = "finish", ![t].id = s]
        PROVE  IInv'
    <3>1. s \in Sessions
      BY <1>a, <2>3 DEF Types, Takes, Sessions
    <3>2. take' \in [Takers -> Takes]
      BY <1>a, <1>b, <2>3, <3>1, TakeForms
    <3>3. procs' \subseteq procs /\ faults' \in Nat
      BY <1>a, <2>3, SigtermFacts
    <3> QED
      BY <1>c, <1>d, <2>1, <3>2, <3>3, TakeInv
  <2> QED
    BY <1>2, <2>2, <2>3 DEF TakeLaunch
<1>3. CASE TakeResumed(t)
  <2>1. UNCHANGED <<id, marker, cache, regVars, claimed, wiped, pc, sweep>> /\ Taken(t)
    BY <1>3 DEF TakeResumed, notTake
  <2>2. PICK s : s = take[t].id
    OBVIOUS
  <2>3. procs' \subseteq procs /\ faults' \in Nat
    BY <1>3, <1>a, <2>2, SigtermFacts DEF TakeResumed
  <2>4. take' \in [Takers -> Takes]
    BY <1>a, <2>1, TakeForms
  <2> QED
    BY <1>c, <1>d, <2>1, <2>3, <2>4, TakeInv
<1>4. CASE TakeFinish(t)
  <2>1. UNCHANGED <<id, marker, cache, procs, faults, wiped, pc, sweep>>
    BY <1>4 DEF TakeFinish, notTake
  <2>2. CASE Step(t, "mark") /\ Finish /\ UNCHANGED claimed
    <3>1. RegTypes' /\ taken' = taken /\ (rec' = "in_flight" => rec = "in_flight")
      BY <1>a, <2>2, RegistryOperations
    <3>2. take' \in [Takers -> Takes]
      BY <1>a, <1>b, <2>2, TakeForms
    <3> QED
      BY <1>a, <1>c, <2>1, <2>2, <3>1, <3>2, TakeInv
  <2>3. CASE /\ Step(t, "clear") /\ taken' = TRUE /\ UNCHANGED rec
             /\ claimed' = claimed \cup {r \in Runs : pc[r] \notin Ended \cup {"begin"}}
    <3>1. take' \in [Takers -> Takes]
      BY <1>a, <1>b, <2>3, TakeForms
    <3>2. Types'
      BY <1>a, <1>c, <2>1, <2>3, <3>1 DEF Types, RegTypes
    <3>3. Waited' /\ MarkerRestored'
      BY <2>1, <2>3 DEF IInv, Waited, MarkerRestored
    <3>4. Claims'
      BY <2>1, <2>3 DEF Claims
    <3> QED
      BY <3>2, <3>3, <3>4 DEF IInv
  <2> QED
    BY <1>4, <2>2, <2>3 DEF TakeFinish
<1>5. CASE TakeClear(t)
  <2>1. UNCHANGED <<id, regVars, procs, claimed, wiped, pc, sweep>>
    BY <1>5 DEF TakeClear, notTake
  <2>2. take' \in [Takers -> Takes]
    BY <1>5, <1>a, <1>b, TakeForms DEF TakeClear
  <2>3. FileTypes'
    BY <1>5, <1>a, <2>1 DEF TakeClear, FileTypes, Markers, Fault
  <2> QED
    BY <1>d, <2>1, <2>2, <2>3, TakeInv
<1>6. CASE TakeBind(t)
  <2>1. UNCHANGED <<marker, cache, regVars, procs, claimed, wiped, pc, sweep>>
    BY <1>6 DEF TakeBind, notTake
  <2>2. take' \in [Takers -> Takes]
    BY <1>6, <1>a, BindTypes
  <2>3. take[t].id \in Sessions
    BY <1>a DEF Takes
  <2>4. (id' = id \/ id' = take[t].id) /\ faults' \in Nat
    BY <1>6, <1>a DEF TakeBind, Fault
  <2>5. FileTypes'
    BY <1>a, <2>1, <2>3, <2>4 DEF FileTypes
  <2> QED
    BY <1>d, <2>1, <2>2, <2>5, TakeInv
<1> QED
  BY <1>1, <1>2, <1>3, <1>4, <1>5, <1>6 DEF Take

-----------------------------------------------------------------------------
(* The sweep *)

\* A step of the sweep, from what it does to the file, the registry and the marker.
LEMMA SweepInv ==
  ASSUME IInv, UNCHANGED notSweep, sweep' \in Sweeps, FileTypes', RegTypes', taken' = taken,
         wiped' \in BOOLEAN, MarkerRestored'
  PROVE  IInv'
<1>1. UNCHANGED <<procs, pc, take, claimed>>
  BY DEF notSweep
<1>2. Types'
  BY <1>1 DEF IInv, Types
<1>3. Waited' /\ Claims'
  BY <1>1 DEF IInv, Waited, Claims
<1> QED
  BY <1>2, <1>3 DEF IInv

\* Where a step of the sweep leads.
LEMMA GoTypes ==
  ASSUME sweep \in Sweeps, NEW p \in SweepSteps, Go(p)
  PROVE  sweep' \in Sweeps /\ sweep'.at = p
BY DEF Sweeps, Go

\* A clear of the sweep is followed by its restore.
LEMMA ClearInv ==
  ASSUME IInv, NEW done \in Restores, NEW failed \in SweepSteps, sweep.at \notin Restores,
         SweepClears(done, failed), UNCHANGED <<notSweep, regVars>>
  PROVE  IInv'
<1>1. FileTypes /\ RegTypes /\ sweep \in Sweeps /\ wiped \in BOOLEAN /\ MarkerRestored
  BY DEF IInv, Types
<1>2. RegTypes' /\ taken' = taken /\ rec' = rec /\ cache' = cache
  BY <1>1 DEF RegTypes, regVars, notSweep
<1>3. FileTypes'
  BY <1>1, <1>2, FileOperations DEF SweepClears
<1>4. CASE Go(done) /\ wiped' = (rec = "in_flight" /\ marker # Absent)
  <2>1. sweep' \in Sweeps /\ sweep'.at \in Restores
    BY <1>1, <1>4, GoTypes DEF SweepSteps
  <2>2. MarkerRestored'
    BY <2>1 DEF MarkerRestored, Restores
  <2>3. wiped' \in BOOLEAN
    BY <1>4
  <2> QED
    BY <1>2, <1>3, <2>1, <2>2, <2>3, SweepInv
<1>5. CASE Go(failed) /\ wiped' = wiped
  <2>1. sweep' \in Sweeps
    BY <1>1, <1>5, GoTypes
  <2>2. MarkerRestored'
    BY <1>1, <1>2, <1>5 DEF MarkerRestored, Restores
  <2> QED
    BY <1>1, <1>2, <1>3, <1>5, <2>1, <2>2, SweepInv
<1> QED
  BY <1>4, <1>5 DEF SweepClears

\* The restore leaves no launch in flight with a marker the sweep has wiped.
LEMMA RestoreInv ==
  ASSUME IInv, NEW done \in SweepSteps, NEW failed \in SweepSteps,
         Restore(done, failed), UNCHANGED <<notSweep, regVars>>
  PROVE  IInv'
<1>1. FileTypes /\ RegTypes /\ sweep \in Sweeps /\ wiped \in BOOLEAN
  BY DEF IInv, Types
<1>2. RegTypes' /\ taken' = taken /\ rec' = rec /\ cache' = cache
  BY <1>1 DEF RegTypes, regVars, notSweep
<1>3. CASE rec = "in_flight"
  <2>1. (Go(done) /\ SetMarker) \/ (Go(failed) /\ Fails /\ wiped' = FALSE)
    BY <1>3 DEF Restore
  <2>2. sweep' \in Sweeps
    BY <1>1, <2>1, GoTypes
  <2>3. FileTypes' /\ wiped' = FALSE
    BY <1>1, <1>2, <2>1, FileOperations DEF SetMarker
  <2>4. MarkerRestored'
    BY <2>3 DEF MarkerRestored
  <2> QED
    BY <1>2, <2>2, <2>3, <2>4, SweepInv
<1>4. CASE rec # "in_flight"
  <2>1. Go(failed) /\ UNCHANGED <<id, marker, faults, wiped>>
    BY <1>4 DEF Restore
  <2>2. sweep' \in Sweeps
    BY <1>1, <2>1, GoTypes
  <2>3. FileTypes'
    BY <1>1, <1>2, <2>1 DEF FileTypes
  <2>4. MarkerRestored'
    BY <1>2, <1>4 DEF MarkerRestored
  <2> QED
    BY <1>1, <1>2, <2>1, <2>2, <2>3, <2>4, SweepInv
<1> QED
  BY <1>3, <1>4

\* A step of the sweep that leaves the marker alone.
LEMMA PassInv ==
  ASSUME IInv, sweep.at \notin Restores, sweep' \in Sweeps, UNCHANGED notSweep, FileTypes',
         Finish \/ Evict \/ EvictIfFinished \/ UNCHANGED regVars, UNCHANGED wiped
  PROVE  IInv'
<1>1. RegTypes' /\ taken' = taken /\ (rec' = "in_flight" => rec = "in_flight")
  BY RegistryOperations DEF IInv, Types
<1>2. MarkerRestored' /\ wiped' \in BOOLEAN
  BY <1>1 DEF IInv, Types, MarkerRestored, Restores
<1> QED
  BY <1>1, <1>2, SweepInv

\* Every step of the sweep keeps the invariant.
LEMMA SweepStep == ASSUME IInv, Sweep PROVE IInv'
<1>a. FileTypes /\ RegTypes /\ sweep \in Sweeps /\ id \in Sessions
  BY DEF IInv, Types, FileTypes
<1>b. ASSUME UNCHANGED notSweep, UNCHANGED <<fileVars, faults>> PROVE FileTypes'
  BY <1>a, <1>b, FileOperations DEF notSweep
<1>1. CASE ReconcileCheck
  <2>1. PICK p \in SweepSteps : Go(p)
    BY <1>1 DEF ReconcileCheck, SweepSteps
  <2>2. sweep' \in Sweeps
    BY <1>a, <2>1, GoTypes
  <2> QED
    BY <1>1, <1>b, <2>2, PassInv DEF ReconcileCheck, Restores
<1>2. CASE Reconcile
  <2>1. {"pass", "rec_finish"} \subseteq SweepSteps /\ "rec_restore" \in Restores
    BY DEF SweepSteps, Restores
  <2>2. CASE sweep.at = "reconcile"
    BY <1>2, <2>1, <2>2, ClearInv DEF Reconcile, Restores
  <2>3. CASE sweep.at = "rec_restore"
    BY <1>2, <2>1, <2>3, RestoreInv DEF Reconcile
  <2>4. CASE sweep.at = "rec_finish"
    <3>1. Finish /\ Go("pass") /\ UNCHANGED <<fileVars, faults, wiped>> /\ UNCHANGED notSweep
      BY <1>2, <2>4 DEF Reconcile
    <3>2. sweep' \in Sweeps
      BY <1>a, <2>1, <3>1, GoTypes
    <3> QED
      BY <1>b, <2>4, <3>1, <3>2, PassInv DEF Restores
  <2> QED
    BY <1>2, <2>2, <2>3, <2>4 DEF Reconcile
<1>3. CASE StaleCheck
  <2>1. sweep' \in Sweeps
    BY <1>3, <1>a DEF StaleCheck, Sweeps, SweepSteps
  <2> QED
    BY <1>3, <1>b, <2>1, PassInv DEF StaleCheck, Restores
<1>4. CASE StaleClear
  <2>1. {"ttl", "stale_marker", "stale_restore"} \subseteq SweepSteps /\ "stale_restore" \in Restores
    BY DEF SweepSteps, Restores
  <2>2. CASE sweep.at = "stale"
    <3>1. UNCHANGED <<wiped, notSweep, regVars>>
      BY <1>4, <2>2 DEF StaleClear
    <3>2. PICK p \in SweepSteps : Go(p) /\ (SetID(None) \/ Fails)
      BY <1>4, <2>1, <2>2 DEF StaleClear
    <3>3. FileTypes' /\ sweep' \in Sweeps
      BY <1>a, <3>1, <3>2, FileOperations, GoTypes DEF Sessions, notSweep
    <3> QED
      BY <2>2, <3>1, <3>3, PassInv DEF Restores
  <2>3. CASE sweep.at = "stale_marker"
    BY <1>4, <2>1, <2>3, ClearInv DEF StaleClear, Restores
  <2>4. CASE sweep.at = "stale_restore"
    BY <1>4, <2>1, <2>4, RestoreInv DEF StaleClear
  <2> QED
    BY <1>4, <2>2, <2>3, <2>4 DEF StaleClear
<1>5. CASE TTLCheck
  <2>1. sweep' \in Sweeps
    BY <1>5 DEF TTLCheck, Sweeps, SweepSteps, Sessions
  <2> QED
    BY <1>5, <1>b, <2>1, PassInv DEF TTLCheck, Restores
<1>6. CASE TTLClear
  <2>1. "finished" \in SweepSteps /\ "ttl_restore" \in Restores
    BY DEF SweepSteps, Restores
  <2>2. CASE sweep.at = "ttl_clear"
    BY <1>6, <2>1, <2>2, ClearInv DEF TTLClear, Restores
  <2>3. CASE sweep.at = "ttl_restore"
    BY <1>6, <2>1, <2>3, RestoreInv DEF TTLClear
  <2> QED
    BY <1>6, <2>2, <2>3 DEF TTLClear
<1>7. CASE FinishedCheck
  <2>1. PICK p \in SweepSteps : Go(p)
    BY <1>7 DEF FinishedCheck, SweepSteps
  <2>2. sweep' \in Sweeps
    BY <1>a, <2>1, GoTypes
  <2> QED
    BY <1>7, <1>b, <2>2, PassInv DEF FinishedCheck, Restores
<1>8. CASE Reclear
  <2>1. {"pass", "re_evict"} \subseteq SweepSteps /\ "re_restore" \in Restores
    BY DEF SweepSteps, Restores
  <2>2. CASE sweep.at \in {"evict", "re_evict"}
    <3>1. (Evict \/ EvictIfFinished) /\ Go("pass") /\ UNCHANGED <<fileVars, faults, wiped>> /\ UNCHANGED notSweep
      BY <1>8, <2>2 DEF Reclear
    <3>2. sweep' \in Sweeps
      BY <1>a, <2>1, <3>1, GoTypes
    <3> QED
      BY <1>b, <2>2, <3>1, <3>2, PassInv DEF Restores
  <2>3. CASE sweep.at = "reclear"
    BY <1>8, <2>1, <2>3, ClearInv DEF Reclear, Restores
  <2>4. CASE sweep.at = "re_restore"
    BY <1>8, <2>1, <2>4, RestoreInv DEF Reclear
  <2> QED
    BY <1>8, <2>2, <2>3, <2>4 DEF Reclear
<1> QED
  BY <1>1, <1>2, <1>3, <1>4, <1>5, <1>6, <1>7, <1>8 DEF Sweep

-----------------------------------------------------------------------------
(* The theorems *)

\* File events, time, merges and crashes keep the invariant.
LEMMA WorldStep == ASSUME IInv, Observe \/ Tick \/ Merge \/ Crash PROVE IInv'
<1>a. Types
  BY DEF IInv
<1>1. CASE Observe \/ Tick \/ Merge
  <2>1. UNCHANGED <<id, rec, taken, procs, pc, take, sweep, claimed, wiped>>
    BY <1>1 DEF Observe, Tick, Merge, fileVars, regVars
  <2>2. FileTypes'
    BY <1>1, <1>a DEF Observe, Tick, Merge, Fault, Older, Types, FileTypes, Markers, fileVars, Absent, Fresh, Expired
  <2>3. Types'
    BY <1>a, <2>1, <2>2 DEF Types, RegTypes
  <2> QED
    BY <2>1, <2>3 DEF IInv, Waited, MarkerRestored, Claims
<1>2. CASE Crash
  <2>1. /\ rec' = None /\ taken' = FALSE /\ procs' = {} /\ cache' = marker /\ wiped' = FALSE /\ claimed' = {}
        /\ sweep' = [at |-> "boot", listed |-> None] /\ UNCHANGED <<id, marker>> /\ faults' = faults + 1
    BY <1>2 DEF Crash, Fault, fileVars
  <2>2. FileTypes' /\ RegTypes'
    <3>1. id \in Sessions /\ marker \in Markers /\ faults \in Nat
      BY <1>a DEF Types, FileTypes
    <3>2. id' \in Sessions /\ marker' \in Markers /\ cache' \in Markers /\ faults' \in Nat
      BY <2>1, <3>1
    <3> QED
      BY <2>1, <3>2 DEF FileTypes, RegTypes
  <2>3. sweep' \in Sweeps
    BY <2>1 DEF Sweeps, SweepSteps, Sessions
  <2>4. pc' \in [Runs -> RunSteps]
    BY <1>2 DEF Crash, RunSteps
  <2>5. \A p \in {"idle", "done"} : [Untaken EXCEPT !.at = p] \in Takes
    BY UntakenTypes
  <2>6. take' \in [Takers -> Takes]
    BY <1>2, <2>5 DEF Crash
  <2>7. Types'
    BY <2>1, <2>2, <2>3, <2>4, <2>6 DEF Types
  <2> QED
    BY <2>1, <2>7 DEF IInv, Waited, MarkerRestored, Claims
<1> QED
  BY <1>1, <1>2

\* The first state.
LEMMA InitInv == Init => IInv
<1> SUFFICES ASSUME Init PROVE IInv
  OBVIOUS
<1>1. Untaken \in Takes
  BY UntakenTypes
<1>2. Types
  BY <1>1 DEF Init, Types, FileTypes, RegTypes, Sessions, Markers, RunSteps, Sweeps, SweepSteps
<1> QED
  BY <1>2 DEF Init, IInv, Waited, MarkerRestored, Claims

\* The invariant is inductive.
LEMMA NextInv == IInv /\ [Next]_vars => IInv'
<1> SUFFICES ASSUME IInv, [Next]_vars PROVE IInv'
  OBVIOUS
<1>1. CASE UNCHANGED vars
  BY <1>1 DEF vars, fileVars, regVars, IInv, Types, FileTypes, RegTypes, Waited, MarkerRestored, Claims
<1> QED
  BY <1>1, RunStep, TakeStep, SweepStep, WorldStep DEF Next

\* The invariant holds throughout.
LEMMA Invariance == Spec => []IInv
BY InitInv, NextInv, PTL DEF Spec

\* No launch process is without a request that waits for it, and a take-over polls the session
\* id no more often than its bound.
THEOREM LaunchTypes == Spec => []TypeOK
<1>1. IInv => TypeOK
  <2> SUFFICES ASSUME IInv PROVE TypeOK
    OBVIOUS
  <2>1. \A t \in Takers : take[t].polls \in 0..(Polls - 1)
    BY DEF IInv, Types, Takes
  <2>2. id \in Runs \cup {None} /\ {marker, cache} \subseteq {Absent, Fresh, Expired}
    BY DEF IInv, Types, FileTypes, Sessions, Markers
  <2> QED
    BY <2>1, <2>2 DEF TypeOK, IInv, Types, RegTypes, Waited
<1> QED
  BY <1>1, Invariance, PTL

\* A launch whose marker a clear of the sweep wiped is found by the restore that follows.
THEOREM SweepRestoresMarker == Spec => []MarkerRestored
<1>1. IInv => MarkerRestored
  BY DEF IInv
<1> QED
  BY <1>1, Invariance, PTL

\* A Run that answers "ended by take-over" was under way when a take-over marked the item.
THEOREM RunVerdicts == Spec => []VerdictHonest
<1>1. IInv => VerdictHonest
  BY DEF IInv, Claims, VerdictHonest, Ended
<1> QED
  BY <1>1, Invariance, PTL
==============================================================================
