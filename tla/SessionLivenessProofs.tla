------------------------ MODULE SessionLivenessProofs ------------------------
(***************************************************************************)
(* Theorems about the liveness badge, for any number of concurrent board   *)
(* reads, changes and faults: a listing that is kept has what it should,   *)
(* and a quiet badge is backed by the store.                               *)
(***************************************************************************)
EXTENDS SessionLiveness, TLAPS

-----------------------------------------------------------------------------
(* The inductive invariant *)

Answers == BOOLEAN \cup {None}
Badges == {"none", "live", "quiet", "indeterminate"}
ReadSteps == {"idle", "known", "resume", "probe", "list", "publish", "stat"}

Worlds == [live : BOOLEAN, file : Transcripts, proc : BOOLEAN]
States == [live : BOOLEAN, known : BOOLEAN]
Polls == [at : {"read", "apply"}, got : Answers]
Snaps == [live : BOOLEAN, known : BOOLEAN, proc : BOOLEAN, refreshed : BOOLEAN, heard : Answers, dark : BOOLEAN]
Refreshes == [at : {"wait", "scan", "sessions", "known"}, proc : BOOLEAN, live : BOOLEAN, heard : Answers]
Verdicts == [current : BOOLEAN, file : Transcripts]
Reads == [at : ReadSteps, live : BOOLEAN, known : BOOLEAN, proc : BOOLEAN, current : BOOLEAN,
          listing : BOOLEAN, whole : BOOLEAN, heard : Answers, dark : BOOLEAN]
Shows == [badge : Badges, heard : Answers, dark : BOOLEAN]

Types ==
  /\ world \in Worlds /\ state \in States /\ poll \in Polls /\ snap \in Snaps /\ refresh \in Refreshes
  /\ index \in Answers /\ cached \in Verdicts /\ reader \in [Readers -> Reads] /\ shown \in [Readers -> Shows]
  /\ heard \in Answers /\ stood \in BOOLEAN

\* Who has heard of the store's last answer has the ids that came with it: the state, a refresh
\* under way, the snapshot and a read of it.
Backed(said, live) == said = TRUE => live = TRUE

Heard == /\ Backed(heard, state.live) /\ Backed(refresh.heard, refresh.live) /\ Backed(snap.heard, snap.live)
         /\ snap.known = TRUE => snap.dark = FALSE

\* A read has its flag with the ids' provenance, and a listing that it may keep for the epoch
\* has a transcript that has been there throughout.
Sound(x, s) ==
  /\ Backed(x.heard, x.live)
  /\ x.at \notin {"idle", "known"} /\ x.known = TRUE => x.dark = FALSE
  /\ x.at = "publish" /\ x.current = TRUE /\ x.whole = TRUE /\ s = TRUE => x.listing = TRUE

ReadsSound == \A r \in Readers : Sound(reader[r], stood)

\* The transcript has been there since the epoch began, and its listing has it.
Stands == stood = TRUE => world.file # "absent" /\ index # FALSE

IInv == Types /\ Heard /\ ReadsSound /\ Stands /\ QuietBacked

-----------------------------------------------------------------------------
(* Steps of the state and of the snapshot *)

\* None is not an answer.
LEMMA NoneIsNoAnswer == None # TRUE /\ None # FALSE
BY LivenessAssumption DEF LivenessAssumption

\* A poll replaces the ids together with the answer, or keeps both.
LEMMA PollStep == ASSUME IInv, Poll PROVE IInv'
<1>a. poll \in Polls /\ state \in States /\ heard \in Answers /\ world \in Worlds
  BY DEF IInv, Types
<1>1. UNCHANGED <<world, snap, index, cached, stood, refresh, reader, shown>>
  BY DEF Poll, PollRead, PollApply, snapVars
<1>2. poll' \in Polls
  BY <1>a DEF Poll, PollRead, PollApply, Polls, Answers, Worlds
<1>3. state' \in States /\ heard' \in Answers /\ Backed(heard', state'.live)
  <2>1. CASE PollRead
    BY <1>a, <2>1 DEF PollRead, IInv, Heard
  <2>2. CASE PollApply /\ poll.got = None
    <3>1. state' = [state EXCEPT !.known = FALSE] /\ heard' = heard
      BY <2>2 DEF PollApply, MarkUnknown
    <3> QED
      BY <1>a, <3>1 DEF IInv, Heard, States
  <2>3. CASE PollApply /\ poll.got # None
    <3>1. PICK b \in BOOLEAN : b = poll.got
      BY <1>a, <2>3 DEF Polls, Answers
    <3>2. state' = [live |-> b, known |-> TRUE] /\ heard' = b
      BY <2>3, <3>1 DEF PollApply, Replace
    <3> QED
      BY <3>2 DEF States, Answers, Backed
  <2> QED
    BY <2>1, <2>2, <2>3 DEF Poll
<1>4. Types'
  BY <1>1, <1>2, <1>3 DEF IInv, Types
<1>5. Heard' /\ ReadsSound' /\ Stands' /\ QuietBacked'
  BY <1>1, <1>3 DEF IInv, Heard, ReadsSound, Stands, QuietBacked
<1> QED
  BY <1>4, <1>5 DEF IInv

\* A step of a refresh before its swap.
LEMMA RefreshReads == ASSUME IInv, Tick \/ Scan \/ ReadSessions PROVE IInv'
<1>a. refresh \in Refreshes /\ state \in States /\ heard \in Answers /\ world \in Worlds
  BY DEF IInv, Types
<1>1. UNCHANGED <<world, state, poll, snap, index, cached, stood, reader, shown, heard>>
  BY DEF Tick, Scan, ReadSessions, notRefresh, snapVars
<1>2. refresh' \in Refreshes /\ Backed(refresh'.heard, refresh'.live)
  <2>1. CASE ReadSessions
    <3>1. PICK b \in BOOLEAN, h \in Answers : b = state.live /\ h = heard
      BY <1>a DEF States
    <3>2. refresh' = [refresh EXCEPT !.at = "known", !.live = b, !.heard = h]
      BY <2>1, <3>1 DEF ReadSessions
    <3>3. refresh' \in Refreshes /\ refresh'.heard = h /\ refresh'.live = b
      BY <1>a, <3>2 DEF Refreshes
    <3> QED
      BY <3>1, <3>3 DEF IInv, Heard
  <2>2. CASE Tick \/ Scan
    <3>1. PICK b \in BOOLEAN : b = world.proc
      BY <1>a DEF Worlds
    <3>2. PICK p \in {"wait", "scan", "sessions"} :
             refresh' = [refresh EXCEPT !.at = p] \/ refresh' = [refresh EXCEPT !.at = p, !.proc = b]
      BY <2>2, <3>1 DEF Tick, Scan
    <3>3. refresh' \in Refreshes /\ refresh'.heard = refresh.heard /\ refresh'.live = refresh.live
      BY <1>a, <3>2 DEF Refreshes
    <3> QED
      BY <3>3 DEF IInv, Heard
  <2> QED
    BY <2>1, <2>2
<1>3. Types'
  BY <1>1, <1>2 DEF IInv, Types
<1>4. Heard' /\ ReadsSound' /\ Stands' /\ QuietBacked'
  BY <1>1, <1>2 DEF IInv, Heard, ReadsSound, Stands, QuietBacked
<1> QED
  BY <1>3, <1>4 DEF IInv

\* The swap publishes ids with the answer they came from, and starts an epoch without a listing.
LEMMA SwapStep == ASSUME IInv, Swap PROVE IInv'
<1>a. /\ refresh \in Refreshes /\ state \in States /\ snap \in Snaps /\ world \in Worlds
      /\ reader \in [Readers -> Reads]
  BY DEF IInv, Types
<1>1. /\ UNCHANGED <<world, state, poll, shown, heard>> /\ index' = None
      /\ cached' = [current |-> FALSE, file |-> "absent"] /\ stood' = (world.file # "absent")
      /\ refresh' = [at |-> "wait", proc |-> FALSE, live |-> FALSE, heard |-> None]
  BY DEF Swap, NewEpoch
<1>2. snap' \in Snaps /\ Backed(snap'.heard, snap'.live) /\ (snap'.known = TRUE => snap'.dark = FALSE)
  <2>1. PICK k \in BOOLEAN, p \in BOOLEAN : k = state.known /\ p = refresh.proc
    BY <1>a DEF States, Refreshes
  <2>2. CASE k = TRUE
    <3>1. PICK l \in BOOLEAN, h \in Answers : l = refresh.live /\ h = refresh.heard
      BY <1>a DEF Refreshes
    <3>2. snap' = [live |-> l, known |-> TRUE, proc |-> p, refreshed |-> TRUE, heard |-> h, dark |-> FALSE]
      BY <2>1, <2>2, <3>1 DEF Swap, SwapLive
    <3> QED
      BY <3>1, <3>2 DEF Snaps, IInv, Heard
  <2>3. CASE k = FALSE
    <3>1. PICK l \in BOOLEAN, h \in Answers : l = snap.live /\ h = snap.heard
      BY <1>a DEF Snaps
    <3>2. snap' = [live |-> l, known |-> FALSE, proc |-> p, refreshed |-> TRUE, heard |-> h, dark |-> TRUE]
      BY <2>1, <2>3, <3>1 DEF Swap, SwapLive
    <3> QED
      BY <3>1, <3>2 DEF Snaps, IInv, Heard
  <2> QED
    BY <2>2, <2>3
<1>3. ASSUME NEW r \in Readers PROVE reader'[r] \in Reads /\ Sound(reader'[r], stood')
  <2>1. PICK x \in Reads : x = reader[r]
    BY <1>a
  <2>2. PICK b \in BOOLEAN : b = (x.current /\ x.at \notin {"list", "publish"})
    OBVIOUS
  <2>3. reader'[r] = [x EXCEPT !.current = b]
    BY <2>1, <2>2 DEF Swap, NewEpoch
  <2>4. Sound(x, stood)
    BY <2>1 DEF IInv, ReadsSound
  <2>5. reader'[r] \in Reads
    BY <2>3 DEF Reads
  <2>6. /\ reader'[r].at = x.at /\ reader'[r].heard = x.heard /\ reader'[r].live = x.live
        /\ reader'[r].known = x.known /\ reader'[r].dark = x.dark /\ reader'[r].current = b
    BY <2>3 DEF Reads
  <2>7. x.at = "publish" => b = FALSE
    BY <2>2
  <2> QED
    BY <2>4, <2>5, <2>6, <2>7 DEF Sound
<1>4. Types'
  <2>1. reader' \in [Readers -> Reads]
    BY <1>3 DEF Swap, NewEpoch
  <2>2. refresh' \in Refreshes /\ cached' \in Verdicts /\ index' \in Answers /\ stood' \in BOOLEAN
    BY <1>1 DEF Refreshes, Verdicts, Answers, Transcripts
  <2> QED
    BY <1>1, <1>2, <2>1, <2>2 DEF IInv, Types
<1>5. Heard'
  BY <1>1, <1>2, NoneIsNoAnswer DEF IInv, Heard, Backed
<1>6. ReadsSound'
  BY <1>3 DEF ReadsSound
<1>7. Stands' /\ QuietBacked'
  BY <1>1, NoneIsNoAnswer DEF IInv, Stands, QuietBacked
<1> QED
  BY <1>4, <1>5, <1>6, <1>7 DEF IInv

-----------------------------------------------------------------------------
(* Steps of the board reads *)

Still == UNCHANGED <<world, state, poll, refresh, snap, stood, heard>>

\* A step of one read that shows nothing and keeps the listing.
LEMMA ReadInv ==
  ASSUME IInv, Still, NEW r \in Readers, NEW x \in Reads, reader' = [reader EXCEPT ![r] = x], Sound(x, stood),
         cached' \in Verdicts, index' \in Answers, stood = TRUE => index' # FALSE, shown' = shown
  PROVE  IInv'
<1>1. reader' \in [Readers -> Reads] /\ \A q \in Readers : reader'[q] = IF q = r THEN x ELSE reader[q]
  BY DEF IInv, Types
<1>2. Types'
  BY <1>1 DEF IInv, Types, Still
<1>3. ReadsSound'
  BY <1>1 DEF IInv, ReadsSound, Still
<1>4. Heard' /\ Stands' /\ QuietBacked'
  BY DEF IInv, Heard, Stands, QuietBacked, Still
<1> QED
  BY <1>2, <1>3, <1>4 DEF IInv

\* What is shown as quiet is backed by the read.
LEMMA ShowBacked ==
  ASSUME NEW x \in Reads, Sound(x, stood), x.at \notin {"idle", "known"}, NEW file \in Transcripts
  PROVE  /\ [badge |-> Classify(x, file), heard |-> x.heard, dark |-> x.dark] \in Shows
         /\ Classify(x, file) = "quiet" => x.heard # TRUE /\ ~x.dark
<1>0. x.live \in BOOLEAN /\ x.known \in BOOLEAN /\ x.dark \in BOOLEAN /\ x.heard \in Answers /\ x.proc \in BOOLEAN
  BY DEF Reads
<1>1. CASE x.live = TRUE
  <2>1. Classify(x, file) = "live"
    BY <1>1 DEF Classify
  <2> QED
    BY <1>0, <2>1 DEF Shows, Badges
<1>2. CASE x.live = FALSE /\ file = "absent"
  <2>1. Classify(x, file) = "indeterminate"
    BY <1>2 DEF Classify
  <2> QED
    BY <1>0, <2>1 DEF Shows, Badges
<1>3. CASE x.live = FALSE /\ file # "absent"
  <2>1. Classify(x, file) = IF file = "recent" \/ x.proc THEN "live" ELSE IF x.known THEN "quiet" ELSE "indeterminate"
    BY <1>3 DEF Classify
  <2>2. Classify(x, file) \in Badges /\ (Classify(x, file) = "quiet" => x.known = TRUE)
    BY <1>0, <2>1 DEF Badges
  <2>3. x.heard # TRUE
    BY <1>3 DEF Sound, Backed
  <2>4. x.known = TRUE => x.dark = FALSE
    BY DEF Sound
  <2> QED
    BY <1>0, <2>2, <2>3, <2>4 DEF Shows
<1> QED
  BY <1>0, <1>1, <1>2, <1>3

\* The idle read.
LEMMA IdleSound == Idle \in Reads /\ \A s : Sound(Idle, s)
BY NoneIsNoAnswer DEF Idle, Reads, ReadSteps, Answers, Sound, Backed

\* A step of one read that ends it with a badge.
LEMMA ShowInv ==
  ASSUME IInv, Still, NEW r \in Readers, NEW file \in Transcripts, reader[r].at \notin {"idle", "known"},
         Show(r, file), cached' \in Verdicts, index' = index
  PROVE  IInv'
<1>1. PICK x \in Reads : x = reader[r]
  BY DEF IInv, Types
<1>2. Sound(x, stood) /\ x.at \notin {"idle", "known"}
  BY <1>1 DEF IInv, ReadsSound
<1>3. PICK y \in Shows : /\ y = [badge |-> Classify(x, file), heard |-> x.heard, dark |-> x.dark]
                         /\ y.badge = "quiet" => y.heard # TRUE /\ ~y.dark
  <2>1. PICK b \in Badges : b = Classify(x, file) /\ (b = "quiet" => x.heard # TRUE /\ ~x.dark)
    <3>1. [badge |-> Classify(x, file), heard |-> x.heard, dark |-> x.dark] \in Shows
      BY <1>2, ShowBacked
    <3>2. Classify(x, file) \in Badges
      BY <3>1 DEF Shows
    <3> QED
      BY <1>2, <3>2, ShowBacked
  <2>2. [badge |-> b, heard |-> x.heard, dark |-> x.dark] \in Shows
    BY <1>2, <2>1, ShowBacked
  <2> QED
    BY <2>1, <2>2
<1>4. shown' = [shown EXCEPT ![r] = y] /\ reader' = [reader EXCEPT ![r] = Idle]
  BY <1>1, <1>3 DEF Show, Step
<1>5. /\ reader' \in [Readers -> Reads] /\ \A q \in Readers : reader'[q] = IF q = r THEN Idle ELSE reader[q]
      /\ shown' \in [Readers -> Shows] /\ \A q \in Readers : shown'[q] = IF q = r THEN y ELSE shown[q]
  BY <1>4, IdleSound DEF IInv, Types
<1>6. Types'
  BY <1>5 DEF IInv, Types, Still
<1>7. ReadsSound'
  BY <1>5, IdleSound DEF IInv, ReadsSound, Still
<1>8. QuietBacked'
  BY <1>3, <1>5 DEF IInv, QuietBacked
<1>9. Heard' /\ Stands'
  BY DEF IInv, Heard, Stands, Still
<1> QED
  BY <1>6, <1>7, <1>8, <1>9 DEF IInv

\* Every step of a board read keeps the invariant.
LEMMA BoardReadStep == ASSUME IInv, NEW r \in Readers, BoardRead(r) PROVE IInv'
<1>a. PICK x \in Reads : x = reader[r]
  BY DEF IInv, Types
<1>b. Sound(x, stood)
  BY <1>a DEF IInv, ReadsSound
<1>c. /\ snap \in Snaps /\ index \in Answers /\ cached \in Verdicts /\ world \in Worlds /\ stood \in BOOLEAN
      /\ Heard /\ (stood = TRUE => index # FALSE /\ world.file # "absent")
  BY DEF IInv, Types, Stands
<1>1. CASE ReadIDs(r)
  <2>1. PICK l \in BOOLEAN, h \in Answers : l = snap.live /\ h = snap.heard
    BY <1>c DEF Snaps
  <2>2. PICK y \in Reads : y = [Idle EXCEPT !.at = "known", !.live = l, !.heard = h]
    BY IdleSound DEF Reads, ReadSteps
  <2>3. Sound(y, stood)
    <3>1. y.at = "known" /\ y.heard = h /\ y.live = l
      BY <2>2, IdleSound DEF Reads
    <3> QED
      BY <1>c, <2>1, <3>1 DEF Sound, Heard
  <2>4. Still /\ reader' = [reader EXCEPT ![r] = y] /\ UNCHANGED <<index, cached, shown>>
    BY <1>1, <2>1, <2>2 DEF ReadIDs, Step, notRead, Still
  <2> QED
    BY <1>c, <2>3, <2>4, ReadInv
<1>2. CASE ReadKnown(r)
  <2>1. PICK k \in BOOLEAN, d \in BOOLEAN : k = snap.known /\ d = snap.dark
    BY <1>c DEF Snaps
  <2>2. PICK y \in Reads : y = [x EXCEPT !.at = "resume", !.known = k, !.dark = d]
    BY DEF Reads, ReadSteps
  <2>3. Sound(y, stood)
    <3>1. y.at = "resume" /\ y.heard = x.heard /\ y.live = x.live /\ y.known = k /\ y.dark = d
      BY <2>2 DEF Reads
    <3> QED
      BY <1>b, <1>c, <2>1, <3>1 DEF Sound, Heard
  <2>4. Still /\ reader' = [reader EXCEPT ![r] = y] /\ UNCHANGED <<index, cached, shown>>
    BY <1>2, <1>a, <2>1, <2>2 DEF ReadKnown, Step, notRead, Still
  <2> QED
    BY <1>c, <2>3, <2>4, ReadInv
<1>3. CASE ReadResume(r)
  <2>1. PICK p \in BOOLEAN : p = snap.proc
    BY <1>c DEF Snaps
  <2>2. PICK y \in Reads : y = [x EXCEPT !.at = "probe", !.proc = p]
    BY DEF Reads, ReadSteps
  <2>3. x.at = "resume"
    BY <1>3, <1>a DEF ReadResume
  <2>4. Sound(y, stood)
    <3>1. y.at = "probe" /\ y.heard = x.heard /\ y.live = x.live /\ y.known = x.known /\ y.dark = x.dark
      BY <2>2 DEF Reads
    <3> QED
      BY <1>b, <2>3, <3>1 DEF Sound
  <2>5. Still /\ reader' = [reader EXCEPT ![r] = y] /\ UNCHANGED <<index, cached, shown>>
    BY <1>3, <1>a, <2>1, <2>2 DEF ReadResume, Step, notRead, Still
  <2> QED
    BY <1>c, <2>4, <2>5, ReadInv
<1>4. CASE Probe(r)
  <2>1. Still /\ UNCHANGED <<index, cached>> /\ x.at = "probe"
    BY <1>4, <1>a DEF Probe, notRead, Still
  <2>2. CASE Show(r, "absent")
    BY <1>a, <1>c, <2>1, <2>2, ShowInv DEF Transcripts
  <2>3. CASE Show(r, cached.file)
    <3>1. PICK f \in Transcripts : f = cached.file
      BY <1>c DEF Verdicts
    <3> QED
      BY <1>a, <1>c, <2>1, <2>3, <3>1, ShowInv
  <2>4. CASE /\ Step(r, [reader[r] EXCEPT !.at = IF index = None THEN "list" ELSE "stat",
                                          !.current = TRUE, !.listing = (index = TRUE)])
             /\ UNCHANGED shown
    <3>1. PICK p \in {"list", "stat"}, b \in BOOLEAN :
             p = (IF index = None THEN "list" ELSE "stat") /\ b = (index = TRUE)
      OBVIOUS
    <3>2. PICK y \in Reads : y = [x EXCEPT !.at = p, !.current = TRUE, !.listing = b]
      BY <3>1 DEF Reads, ReadSteps
    <3>3. y.at = p /\ y.heard = x.heard /\ y.live = x.live /\ y.known = x.known /\ y.dark = x.dark
      BY <3>2 DEF Reads
    <3>4. Sound(y, stood)
      BY <1>b, <2>1, <3>1, <3>3 DEF Sound
    <3>5. reader' = [reader EXCEPT ![r] = y]
      BY <1>a, <2>4, <3>1, <3>2 DEF Step
    <3> QED
      BY <1>c, <2>1, <2>4, <3>4, <3>5, ReadInv
  <2> QED
    BY <1>4, <2>2, <2>3, <2>4 DEF Probe
<1>5. CASE List(r)
  <2>1. Still /\ UNCHANGED <<index, cached, shown>> /\ x.at = "list"
    BY <1>5, <1>a DEF List, notRead, Still
  <2>2. PICK l \in BOOLEAN, w \in BOOLEAN :
           /\ reader' = [reader EXCEPT ![r] = [x EXCEPT !.at = "publish", !.listing = l, !.whole = w]]
           /\ w = TRUE /\ stood = TRUE => l = TRUE
    <3>1. CASE Step(r, [reader[r] EXCEPT !.at = "publish", !.listing = (world.file # "absent")])
      <4>1. PICK l \in BOOLEAN : l = (world.file # "absent")
        OBVIOUS
      <4>2. PICK w \in BOOLEAN : w = x.whole
        BY DEF Reads
      <4>3. [x EXCEPT !.at = "publish", !.listing = l] = [x EXCEPT !.at = "publish", !.listing = l, !.whole = w]
        BY <4>2 DEF Reads
      <4>4. reader' = [reader EXCEPT ![r] = [x EXCEPT !.at = "publish", !.listing = l, !.whole = w]]
        BY <1>a, <3>1, <4>1, <4>3 DEF Step
      <4> QED
        BY <1>c, <4>1, <4>4
    <3>2. CASE Step(r, [reader[r] EXCEPT !.at = "publish", !.listing = FALSE, !.whole = FALSE])
      BY <1>a, <3>2 DEF Step
    <3> QED
      BY <1>5, <3>1, <3>2 DEF List
  <2>3. PICK y \in Reads : y = [x EXCEPT !.at = "publish", !.listing = l, !.whole = w]
    BY DEF Reads, ReadSteps
  <2>4. /\ y.at = "publish" /\ y.heard = x.heard /\ y.live = x.live /\ y.known = x.known /\ y.dark = x.dark
        /\ y.listing = l /\ y.whole = w
    BY <2>3 DEF Reads
  <2>5. Sound(y, stood)
    BY <1>b, <2>1, <2>2, <2>4 DEF Sound
  <2> QED
    BY <1>c, <2>1, <2>2, <2>3, <2>5, ReadInv
<1>6. CASE PublishIndex(r)
  <2>1. Still /\ UNCHANGED <<cached, shown>> /\ x.at = "publish" /\ index' = Published(r)
    BY <1>6, <1>a DEF PublishIndex, notRead, Still
  <2>2. index' \in Answers /\ (stood = TRUE => index' # FALSE)
    <3>1. x.current \in BOOLEAN /\ x.whole \in BOOLEAN /\ x.listing \in BOOLEAN
      BY DEF Reads
    <3>2. CASE x.current = TRUE /\ x.whole = TRUE
      <4>1. index' = x.listing
        BY <1>a, <2>1, <3>2 DEF Published
      <4>2. stood = TRUE => x.listing = TRUE
        BY <1>b, <2>1, <3>2 DEF Sound
      <4> QED
        BY <3>1, <4>1, <4>2 DEF Answers
    <3>3. CASE x.current = FALSE \/ x.whole = FALSE
      <4>1. index' = index
        BY <1>a, <2>1, <3>3 DEF Published
      <4> QED
        BY <1>c, <4>1
    <3> QED
      BY <3>1, <3>2, <3>3
  <2>3. PICK l \in BOOLEAN : reader' = [reader EXCEPT ![r] = [x EXCEPT !.at = "stat", !.listing = l]]
    <3>1. PICK l \in BOOLEAN : l = IF ~x.current /\ index # None THEN index ELSE x.listing
      BY <1>c DEF Reads, Answers
    <3> QED
      BY <1>6, <1>a, <3>1 DEF PublishIndex, Step
  <2>4. PICK y \in Reads : y = [x EXCEPT !.at = "stat", !.listing = l]
    BY DEF Reads, ReadSteps
  <2>5. y.at = "stat" /\ y.heard = x.heard /\ y.live = x.live /\ y.known = x.known /\ y.dark = x.dark
    BY <2>4 DEF Reads
  <2>6. Sound(y, stood)
    BY <1>b, <2>1, <2>5 DEF Sound
  <2> QED
    BY <1>c, <2>1, <2>2, <2>3, <2>4, <2>6, ReadInv
<1>7. CASE Stat(r)
  <2>1. Still /\ index' = index /\ x.at = "stat"
    BY <1>7, <1>a DEF Stat, notRead, Still
  <2>2. PICK f \in Transcripts : f = IF reader[r].listing THEN world.file ELSE "absent"
    BY <1>c DEF Worlds, Transcripts
  <2>3. cached' = [current |-> Window, file |-> f] /\ (Show(r, f) \/ (Step(r, Idle) /\ UNCHANGED shown))
    BY <1>7, <2>2 DEF Stat
  <2>4. cached' \in Verdicts
    BY <1>c, <2>3 DEF Verdicts, Window, Snaps
  <2>5. CASE Show(r, f)
    BY <1>a, <2>1, <2>4, <2>5, ShowInv
  <2>6. CASE Step(r, Idle) /\ UNCHANGED shown
    BY <1>c, <2>1, <2>4, <2>6, IdleSound, ReadInv DEF Step
  <2> QED
    BY <2>3, <2>5, <2>6
<1> QED
  BY <1>1, <1>2, <1>3, <1>4, <1>5, <1>6, <1>7 DEF BoardRead

-----------------------------------------------------------------------------
(* The theorems *)

\* What changes in the world keeps the invariant: a transcript that goes no longer stands.
LEMMA WorldStep == ASSUME IInv, Change \/ Quieten PROVE IInv'
<1>a. world \in Worlds /\ cached \in Verdicts /\ stood \in BOOLEAN /\ Stands
  BY DEF IInv, Types
<1>1. UNCHANGED <<state, poll, snap, index, refresh, reader, shown, heard>>
  BY DEF Change, Quieten
<1>2. /\ world' \in Worlds /\ cached' \in Verdicts /\ stood' \in BOOLEAN /\ (stood' = TRUE => stood = TRUE)
      /\ stood' = TRUE => world'.file # "absent"
  <2>1. CASE Change
    <3>1. world' \in Worlds
      BY <1>a, <2>1 DEF Change, Worlds, Transcripts
    <3>2. cached' = cached /\ stood' = (stood /\ world'.file # "absent")
      BY <2>1 DEF Change
    <3> QED
      BY <1>a, <3>1, <3>2
  <2>2. CASE Quieten
    <3>1. /\ world' = [world EXCEPT !.file = Older(world.file)] /\ stood' = stood
          /\ cached' = [cached EXCEPT !.file = Older(cached.file)]
      BY <2>2 DEF Quieten
    <3>2. /\ \A f \in Transcripts : Older(f) \in Transcripts /\ (Older(f) = "absent" => f = "absent")
      BY DEF Older, Transcripts
    <3>3. world.file \in Transcripts /\ cached.file \in Transcripts
      BY <1>a DEF Worlds, Verdicts
    <3>4. world' \in Worlds /\ cached' \in Verdicts /\ world'.file = Older(world.file)
      BY <1>a, <3>1, <3>2, <3>3 DEF Worlds, Verdicts
    <3> QED
      BY <1>a, <3>1, <3>2, <3>3, <3>4 DEF Stands
  <2> QED
    BY <2>1, <2>2
<1>3. Types'
  BY <1>1, <1>2 DEF IInv, Types
<1>4. ReadsSound'
  <2> SUFFICES ASSUME NEW r \in Readers PROVE Sound(reader[r], stood')
    BY <1>1 DEF ReadsSound
  <2>1. Sound(reader[r], stood)
    BY DEF IInv, ReadsSound
  <2> QED
    BY <1>2, <2>1 DEF Sound
<1>5. Heard' /\ Stands' /\ QuietBacked'
  BY <1>a, <1>1, <1>2 DEF IInv, Heard, Stands, QuietBacked
<1> QED
  BY <1>3, <1>4, <1>5 DEF IInv

\* The first state.
LEMMA InitInv == Init => IInv
<1> SUFFICES ASSUME Init PROVE IInv
  OBVIOUS
<1>1. world \in Worlds /\ state \in States /\ poll \in Polls
  BY DEF Init, Worlds, States, Polls, Answers
<1>2. snap \in Snaps /\ refresh \in Refreshes
  BY DEF Init, Snaps, Refreshes, Answers
<1>3. cached \in Verdicts /\ index \in Answers /\ heard \in Answers /\ stood = FALSE
  BY DEF Init, Verdicts, Answers, Transcripts
<1>4. reader \in [Readers -> Reads] /\ shown \in [Readers -> Shows]
  BY IdleSound DEF Init, Shows, Badges, Answers
<1>5. Types
  BY <1>1, <1>2, <1>3, <1>4 DEF Types
<1>6. Heard /\ Stands
  BY <1>3, NoneIsNoAnswer DEF Init, Heard, Backed, Stands
<1>7. ReadsSound /\ QuietBacked
  BY IdleSound DEF Init, ReadsSound, QuietBacked
<1> QED
  BY <1>5, <1>6, <1>7 DEF IInv

\* The invariant is inductive.
LEMMA NextInv == IInv /\ [Next]_vars => IInv'
<1> SUFFICES ASSUME IInv, [Next]_vars PROVE IInv'
  OBVIOUS
<1>1. CASE UNCHANGED vars
  BY <1>1 DEF vars, snapVars, IInv, Types, Heard, ReadsSound, Stands, QuietBacked
<1> QED
  BY <1>1, PollStep, RefreshReads, SwapStep, BoardReadStep, WorldStep DEF Next, Refresh

\* The invariant holds throughout.
LEMMA Invariance == Spec => []IInv
BY InitInv, NextInv, PTL DEF Spec

\* A listing that all reads of an epoch share has the transcript that was there when the epoch
\* began and has stayed, whoever made it and whatever overtook the making.
THEOREM SharedListings == Spec => []ListingSound
<1>1. IInv => ListingSound
  <2> SUFFICES ASSUME IInv, index # None, stood PROVE index
    BY DEF ListingSound
  <2>1. index \in Answers /\ stood = TRUE
    BY DEF IInv, Types
  <2>2. index = TRUE
    BY <2>1 DEF IInv, Stands, Answers
  <2> QED
    BY <2>2
<1> QED
  BY <1>1, Invariance, PTL

\* No read shows a session as quiet that the store's last answer called live, nor on a snapshot
\* of a store that could not be reached.
THEOREM QuietBadges == Spec => []QuietBacked
<1>1. IInv => QuietBacked
  BY DEF IInv
<1> QED
  BY <1>1, Invariance, PTL
==============================================================================
