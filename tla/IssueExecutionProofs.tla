-------------------------- MODULE IssueExecutionProofs --------------------------
(***************************************************************************)
(* Proofs about IssueExecution, for any agents, comments and number of rows. *)
(* The invariant is about two tables, the runs rn and the wakes wk, that     *)
(* point at each other.  A handler often changes them in two steps (stale    *)
(* holders are cancelled before a wake is recorded; deferred wakes are       *)
(* drained before one is promoted), so that the invariant and the lemmas on  *)
(* each kind of change take the tables as parameters.                        *)
(***************************************************************************)
EXTENDS IssueExecution, FiniteSetTheorems, WellFoundedInduction, TLAPS

------------------------------------------------------------------------------
(* The tables, and what holds of them.                                        *)

RunRecord  == [st : RunStatus, agent : Agents, wake : Rows, kind : Kinds,
               ctx : SUBSET Comments, retry : Status \cup {"no"},
               of : Rows \cup {None}, started : BOOLEAN, stopped : BOOLEAN]
WakeRecord == [st : WakeStatus, agent : Agents, kind : Kinds, msg : SUBSET Comments,
               env : SUBSET Comments, run : Rows \cup {None}]
RunRows  == [Rows -> RunRecord]
WakeRows == [Rows -> WakeRecord]

Waits(x) == x.st \in {"queued", "scheduled"}
Over(x)  == x.st \in {"succeeded", "failed", "cancelled"}

\* A run and its own wake point at each other, and agree on what is still to come.
OwnWake(rn, wk) ==
  \A r \in Rows : rn[r].st # "none" =>
    /\ wk[rn[r].wake].run = r
    /\ wk[rn[r].wake].st \notin {"none", "deferred", "coalesced"}
    /\ Waits(rn[r]) => wk[rn[r].wake].st = "queued"
    /\ rn[r].st = "running" => wk[rn[r].wake].st \in {"queued", "claimed"}

\* A wake has a run as soon as it is no longer saved; only a merged or adopted one
\* has the run of another wake.
OwnRun(rn, wk) ==
  \A w \in Rows :
    /\ wk[w].run # None => /\ rn[wk[w].run].st # "none"
                           /\ wk[w].st = "coalesced" \/ rn[wk[w].run].wake = w
    /\ wk[w].st \in {"none", "deferred"} => wk[w].run = None
    /\ wk[w].st \in {"queued", "claimed", "completed", "coalesced"} => wk[w].run # None
    /\ wk[w].st = "none" => wk[w].env = {} /\ wk[w].msg = {}

\* The envelope of a wake that has a run of its own is part of the run's context.
Enclosed(rn, wk) ==
  \A w \in Rows : wk[w].st \in {"queued", "claimed", "completed"}
                    => wk[w].env \subseteq rn[wk[w].run].ctx

\* The rows before n are used.
UsedUpTo(rn, n) == \A q \in Rows : q < n => rn[q].st # "none"

\* A run that continues another follows its end; unused rows are blank and last.
Chained(rn) ==
  \A r \in Rows :
    /\ rn[r].of # None => Over(rn[rn[r].of])
    /\ rn[r].st = "none" => rn[r].of = None /\ rn[r].ctx = {}
    /\ rn[r].st = "scheduled" => rn[r].of # None
    /\ rn[r].st = "running" => rn[r].started
    /\ rn[r].st # "none" => UsedUpTo(rn, r)

Sound(rn, wk) ==
  /\ rn \in RunRows /\ wk \in WakeRows
  /\ OwnWake(rn, wk) /\ OwnRun(rn, wk) /\ Enclosed(rn, wk) /\ Chained(rn)

\* The controller process drives a run that runs, and releases a run that ended.
Driven ==
  /\ \A r \in Rows : proc[r] \in {"claimed", "starting"} => run[r].st = "running"
  /\ \A r \in Rows : \A how \in Settlement : <<r, how>> \in settle => Ended(r)

\* The types of everything else.
IssueRows == [assignee : Agents, status : Status, exec : Rows \cup {None}]
Typed ==
  /\ issue \in IssueRows
  /\ comment \in [Comments -> {"none", "live", "deleted"}]
  /\ proc \in [Rows -> Phases]
  /\ settle \subseteq Rows \X Settlement
  /\ mail \subseteq Comments \X Agents
  /\ route \in [phase : {"idle", "stopped", "assigned"}, to : Agents, run : Rows \cup {None}]

IInv == Typed /\ Sound(run, wake) /\ Driven

------------------------------------------------------------------------------
(* Rows.                                                                      *)

LEMMA RowsAreNumbers == Rows \subseteq Nat /\ None \notin Rows /\ IsFiniteSet(Rows)
BY BoundAssumption, FS_Interval DEF Rows, None

LEMMA TypeOf == IInv => TypeOK
BY DEF IInv, Typed, Sound, TypeOK, IssueRows, RunRows, WakeRows, RunRecord, WakeRecord

\* The oldest row of a set is in it, and is before all others.
LEMMA OldestIn ==
  ASSUME NEW S \in SUBSET Rows, S # {}
  PROVE  Oldest(S) \in S /\ \A y \in S : Oldest(S) <= y
<1>1. S \subseteq Nat
  BY RowsAreNumbers
<1> DEFINE R == {p \in Nat \X Nat : p[1] < p[2]}
<1>2. IsWellFoundedOn(R, Nat)
  BY NatLessThanWellFounded DEF OpToRel
<1>3. \A y, z \in Nat : y < z => <<y, z>> \in R
  OBVIOUS
<1> HIDE DEF R
<1>4. PICK x \in S : \A y \in S : <<y, x>> \notin R
  BY <1>1, <1>2, WFMin
<1>5. \A y \in S : x <= y
  <2> TAKE y \in S
  <2>1. x \in Nat /\ y \in Nat /\ <<y, x>> \notin R
    BY <1>1, <1>4
  <2>2. ~(y < x)
    BY <2>1, <1>3
  <2>3. QED
    BY <2>1, <2>2
<1>6. QED
  BY <1>5 DEF Oldest

------------------------------------------------------------------------------
(* Kinds of change to the tables.                                             *)

\* Runs and wakes refer to rows.
References(rn, wk) ==
  /\ \A r \in Rows : rn[r].wake \in Rows /\ rn[r].of \in Rows \cup {None}
  /\ \A w \in Rows : wk[w].run \in Rows \cup {None}

LEMMA SoundReferences ==
  ASSUME NEW rn, NEW wk, Sound(rn, wk)
  PROVE  References(rn, wk)
BY DEF Sound, References, RunRows, WakeRows, RunRecord, WakeRecord

\* Stopping, finishing or cancelling the runs of S, together with their own wakes.
RunsEnd(S, rn, rn2) ==
  /\ \A r \in S : /\ Waits(rn[r]) \/ rn[r].st = "running"
                  /\ Over(rn2[r]) /\ rn2[r].wake = rn[r].wake
                  /\ rn2[r].ctx = rn[r].ctx /\ rn2[r].of = rn[r].of
  /\ \A r \in Rows \ S : rn2[r] = rn[r]
WakesEnd(S, rn, wk, wk2) ==
  \A w \in Rows :
    \/ wk2[w] = wk[w] /\ (\A r \in S : rn[r].wake # w)
    \/ \E r \in S : /\ rn[r].wake = w /\ wk2[w].run = wk[w].run
                    /\ wk2[w].st \in {"completed", "skipped", "failed", "cancelled"}
                    /\ wk2[w].env \subseteq wk[w].env

LEMMA SoundEnd ==
  ASSUME NEW rn, NEW wk, Sound(rn, wk),
         NEW rn2 \in RunRows, NEW wk2 \in WakeRows, NEW S \in SUBSET Rows,
         RunsEnd(S, rn, rn2), WakesEnd(S, rn, wk, wk2)
  PROVE  Sound(rn2, wk2)
<1> USE DEF Waits, Over, RunsEnd, WakesEnd
<1>1. None \notin Rows /\ References(rn, wk)
  BY RowsAreNumbers, SoundReferences
<1>2. OwnWake(rn2, wk2)
  BY <1>1 DEF Sound, OwnWake, References
<1>3. OwnRun(rn2, wk2)
  BY <1>1 DEF Sound, OwnWake, OwnRun, References
<1>4. Enclosed(rn2, wk2)
  BY <1>1 DEF Sound, OwnWake, OwnRun, Enclosed, References
<1>5. Chained(rn2)
  BY <1>1 DEF Sound, Chained, References, UsedUpTo
<1>6. QED
  BY <1>2, <1>3, <1>4, <1>5 DEF Sound

\* A run that stays active moves on, with its own wake.
LEMMA SoundMove ==
  ASSUME NEW rn, NEW wk, Sound(rn, wk),
         NEW rn2 \in RunRows, NEW wk2 \in WakeRows, NEW r \in Rows,
         Waits(rn[r]) \/ rn[r].st = "running",
         rn2[r].st \in {"queued", rn[r].st} \/ rn2[r].st = "running",
         rn2[r].wake = rn[r].wake, rn2[r].of = rn[r].of,
         rn2[r].st = "running" => rn2[r].started,
         \A q \in Rows \ {r} : rn2[q] = rn[q],
         \A w \in Rows \ {rn[r].wake} : wk2[w] = wk[w],
         wk2[rn[r].wake].run = r, wk2[rn[r].wake].st \in {"queued", "claimed"},
         Waits(rn2[r]) => wk2[rn[r].wake].st = "queued",
         wk2[rn[r].wake].env \subseteq rn2[r].ctx
  PROVE  Sound(rn2, wk2)
<1> USE DEF Waits, Over
<1>1. None \notin Rows /\ References(rn, wk)
  BY RowsAreNumbers, SoundReferences
<1>2. OwnWake(rn2, wk2)
  BY <1>1 DEF Sound, OwnWake, References
<1>3. OwnRun(rn2, wk2)
  BY <1>1 DEF Sound, OwnWake, OwnRun, References
<1>4. Enclosed(rn2, wk2)
  BY <1>1 DEF Sound, OwnWake, OwnRun, Enclosed, References
<1>5. Chained(rn2)
  BY <1>1 DEF Sound, Chained, References, UsedUpTo
<1>6. QED
  BY <1>2, <1>3, <1>4, <1>5 DEF Sound

\* A new run is queued or scheduled with a wake of its own, which was saved or is new.
\* It may adopt saved wakes.
LEMMA SoundNew ==
  ASSUME NEW rn, NEW wk, Sound(rn, wk),
         NEW rn2 \in RunRows, NEW wk2 \in WakeRows, NEW w \in Rows, NEW n \in Rows,
         rn[n].st = "none", UsedUpTo(rn, n),
         wk[w].st \in {"none", "deferred"},
         \A r \in Rows \ {n} : rn2[r] = rn[r],
         rn2[n].wake = w, Waits(rn2[n]),
         rn2[n].of # None => Over(rn[rn2[n].of]),
         rn2[n].st = "scheduled" => rn2[n].of # None,
         wk2[w].st = "queued", wk2[w].run = n, wk2[w].env \subseteq rn2[n].ctx,
         \A v \in Rows \ {w} :
           \/ wk2[v] = wk[v]
           \/ wk[v].st = "deferred" /\ wk2[v].st = "coalesced" /\ wk2[v].run = n
  PROVE  Sound(rn2, wk2)
<1> USE DEF Waits, Over
<1>1. None \notin Rows /\ References(rn, wk)
  BY RowsAreNumbers, SoundReferences
<1>2. OwnWake(rn2, wk2)
  BY <1>1 DEF Sound, OwnWake, References
<1>3. OwnRun(rn2, wk2)
  BY <1>1 DEF Sound, OwnWake, OwnRun, References
<1>4. Enclosed(rn2, wk2)
  BY <1>1 DEF Sound, OwnWake, OwnRun, Enclosed, References
<1>5. Chained(rn2)
  <2>1. \A r \in Rows : rn[r].st # "none" => rn2[r] = rn[r]
    OBVIOUS
  <2>2. \A r \in Rows : UsedUpTo(rn, r) => UsedUpTo(rn2, r)
    BY <2>1 DEF UsedUpTo
  <2>3. ASSUME NEW r \in Rows, rn2[r].of # None
        PROVE  Over(rn2[rn2[r].of])
    <3>1. rn2[r].of \in Rows /\ Over(rn[rn2[r].of])
      BY <1>1, <2>3 DEF Sound, Chained, References, RunRows, RunRecord
    <3>2. QED
      BY <2>1, <3>1
  <2>4. ASSUME NEW r \in Rows, r # n
        PROVE  /\ rn2[r].st = "none" => rn2[r].of = None /\ rn2[r].ctx = {}
               /\ rn2[r].st = "scheduled" => rn2[r].of # None
               /\ rn2[r].st = "running" => rn2[r].started
               /\ rn2[r].st # "none" => UsedUpTo(rn2, r)
    BY <2>1, <2>2, <2>4 DEF Sound, Chained
  <2>5. QED
    BY <2>2, <2>3, <2>4 DEF Chained
<1>6. QED
  BY <1>2, <1>3, <1>4, <1>5 DEF Sound

\* A new wake is merged into a run, whose context grows.
LEMMA SoundJoin ==
  ASSUME NEW rn, NEW wk, Sound(rn, wk),
         NEW rn2 \in RunRows, NEW wk2 \in WakeRows, NEW w \in Rows, NEW h \in Rows,
         rn[h].st # "none", rn2[h].st = rn[h].st, rn2[h].wake = rn[h].wake,
         rn2[h].of = rn[h].of, rn2[h].started = rn[h].started,
         rn[h].ctx \subseteq rn2[h].ctx,
         \A r \in Rows \ {h} : rn2[r] = rn[r],
         wk[w].st = "none", wk2[w].st = "coalesced", wk2[w].run = h,
         \A v \in Rows \ {w} : wk2[v] = wk[v]
  PROVE  Sound(rn2, wk2)
<1> USE DEF Waits, Over
<1>1. None \notin Rows /\ References(rn, wk)
  BY RowsAreNumbers, SoundReferences
<1>2. OwnWake(rn2, wk2)
  BY <1>1 DEF Sound, OwnWake, References
<1>3. OwnRun(rn2, wk2)
  BY <1>1 DEF Sound, OwnWake, OwnRun, References
<1>4. Enclosed(rn2, wk2)
  BY <1>1 DEF Sound, OwnWake, OwnRun, Enclosed, References
<1>5. Chained(rn2)
  BY <1>1 DEF Sound, Chained, References, UsedUpTo
<1>6. QED
  BY <1>2, <1>3, <1>4, <1>5 DEF Sound

\* Wakes without a run are saved, edited, or given up.
LEMMA SoundSaved ==
  ASSUME NEW rn, NEW wk, Sound(rn, wk), NEW wk2 \in WakeRows,
         \A w \in Rows : \/ wk2[w] = wk[w]
                         \/ /\ wk[w].st \in {"none", "deferred"} /\ wk2[w].run = None
                            /\ wk2[w].st \in {"deferred", "cancelled", "failed"}
  PROVE  Sound(rn, wk2)
<1> USE DEF Waits, Over
<1>1. None \notin Rows /\ References(rn, wk)
  BY RowsAreNumbers, SoundReferences
<1>2. OwnWake(rn, wk2)
  BY <1>1 DEF Sound, OwnWake, References
<1>3. OwnRun(rn, wk2)
  BY <1>1 DEF Sound, OwnWake, OwnRun, References
<1>4. Enclosed(rn, wk2)
  BY <1>1 DEF Sound, OwnWake, OwnRun, Enclosed, References
<1>5. QED
  BY <1>1, <1>2, <1>3, <1>4 DEF Sound

------------------------------------------------------------------------------
(* Wakes.                                                                     *)

\* The search for a run finds an active one.
LEMMA FirstIn ==
  ASSUME NEW S \in SUBSET Rows, S # {}
  PROVE  First(S) \in S
BY OldestIn DEF First

\* Only waiting runs of a former assignee are cancelled by a wake.
LEMMA StaleHoldersWait ==
  ASSUME IInv
  PROVE  /\ StaleHolders \subseteq Rows
         /\ \A r \in StaleHolders : Waiting(r) /\ Former(r)
<1>1. ActiveRuns \subseteq Rows
  BY DEF ActiveRuns
<1>2. issue.exec \in Rows \cup {None}
  BY DEF IInv, Typed, IssueRows
<1>3. QED
  BY <1>1, <1>2, FirstIn DEF StaleHolders, Waiting

\* The run that a wake joins or waits for is active, and not one of these.
LEMMA HolderActive ==
  ASSUME Holder # None
  PROVE  Holder \in Rows /\ Active(Holder) /\ Holder \notin StaleHolders
<1> DEFINE others == ActiveRuns \ {r \in StaleHolders : r = issue.exec}
<1>1. others \subseteq Rows /\ (\A r \in others : Active(r))
  BY DEF ActiveRuns
<1>2. CASE issue.exec \in others
  BY <1>1, <1>2 DEF Holder
<1>3. CASE issue.exec \notin others
  <2>1. others # {} /\ First(others) \notin StaleHolders /\ Holder = First(others)
    BY <1>3 DEF Holder
  <2>2. QED
    BY <1>1, <2>1, FirstIn
<1>4. QED
  BY <1>2, <1>3

\* The tables after the stale holders are cancelled.
LEMMA Behind ==
  ASSUME IInv
  PROVE  /\ Sound(RunsBehind, WakesBehind)
         /\ \A r \in Rows \ StaleHolders : RunsBehind[r] = run[r]
         /\ \A r \in Rows : ~Waiting(r) => RunsBehind[r] = run[r]
         /\ \A r \in StaleHolders : RunsBehind[r] = [run[r] EXCEPT !.st = "cancelled"]
         /\ \A w \in Rows : \/ WakesBehind[w] = wake[w] /\ (\A r \in StaleHolders : run[r].wake # w)
                            \/ /\ \E r \in StaleHolders : run[r].wake = w
                               /\ WakesBehind[w] = [wake[w] EXCEPT !.st = "cancelled"]
<1>1. /\ run \in RunRows /\ wake \in WakeRows /\ Sound(run, wake)
      /\ StaleHolders \in SUBSET Rows /\ \A r \in StaleHolders : Waiting(r)
  BY StaleHoldersWait DEF IInv, Sound
<1>2. RunsBehind \in RunRows /\ WakesBehind \in WakeRows
  BY <1>1 DEF RunsBehind, WakesBehind, RunRows, WakeRows, RunRecord, WakeRecord, RunStatus, WakeStatus
<1>3. /\ \A r \in Rows \ StaleHolders : RunsBehind[r] = run[r]
      /\ \A r \in StaleHolders : RunsBehind[r] = [run[r] EXCEPT !.st = "cancelled"]
  BY <1>1 DEF RunsBehind
<1>4. \A w \in Rows : \/ WakesBehind[w] = wake[w] /\ (\A r \in StaleHolders : run[r].wake # w)
                      \/ /\ \E r \in StaleHolders : run[r].wake = w
                         /\ WakesBehind[w] = [wake[w] EXCEPT !.st = "cancelled"]
  BY DEF WakesBehind
<1>5. ASSUME NEW r \in StaleHolders
      PROVE  /\ Waits(run[r]) /\ Over(RunsBehind[r]) /\ RunsBehind[r].wake = run[r].wake
             /\ RunsBehind[r].ctx = run[r].ctx /\ RunsBehind[r].of = run[r].of
  <2>1. r \in Rows /\ Waits(run[r])
    BY <1>1 DEF Waits, Waiting
  <2>2. run[r] \in RunRecord /\ RunsBehind[r] = [run[r] EXCEPT !.st = "cancelled"]
    BY <1>1, <1>3, <2>1 DEF RunRows
  <2>3. QED
    BY <2>1, <2>2 DEF Over, RunRecord
<1>6. ASSUME NEW w \in Rows
      PROVE  \/ WakesBehind[w] = wake[w] /\ (\A r \in StaleHolders : run[r].wake # w)
             \/ \E r \in StaleHolders :
                  /\ run[r].wake = w /\ WakesBehind[w].run = wake[w].run
                  /\ WakesBehind[w].st = "cancelled" /\ WakesBehind[w].env = wake[w].env
  <2>1. CASE WakesBehind[w] = [wake[w] EXCEPT !.st = "cancelled"]
    <3>1. /\ WakesBehind[w].run = wake[w].run /\ WakesBehind[w].st = "cancelled"
          /\ WakesBehind[w].env = wake[w].env
      BY <1>1, <2>1 DEF WakeRows, WakeRecord
    <3>2. QED
      BY <1>4, <3>1
  <2>2. QED
    BY <1>4, <2>1
<1>7. Sound(RunsBehind, WakesBehind)
  <2>1. RunsEnd(StaleHolders, run, RunsBehind)
    BY <1>3, <1>5 DEF RunsEnd
  <2>2. WakesEnd(StaleHolders, run, wake, WakesBehind)
    BY <1>6 DEF WakesEnd
  <2>3. QED
    BY <1>1, <1>2, <2>1, <2>2, SoundEnd
<1>8. \A r \in Rows : ~Waiting(r) => RunsBehind[r] = run[r]
  BY <1>1, <1>3
<1>9. QED
  BY <1>3, <1>4, <1>7, <1>8

\* Runs that ended stay as they are, and runs that run go on, except those of S.
Steady(S) == \A r \in Rows : /\ Ended(r) => Ended(r)' /\ run'[r] = run[r]
                             /\ run[r].st = "running" /\ r \notin S => run'[r].st = "running"

\* A wake that is new or saved is not that of a stale holder.
LEMMA UntouchedBehind ==
  ASSUME IInv, NEW w \in Rows, wake[w].st \in {"none", "deferred"}
  PROVE  WakesBehind[w] = wake[w]
<1>1. \A r \in StaleHolders : run[r].wake # w
  BY StaleHoldersWait DEF IInv, Sound, OwnWake, Waiting
<1>2. QED
  BY <1>1, Behind

LEMMA JoinRunStep ==
  ASSUME IInv, NEW kind \in Kinds, NEW a \in Agents, NEW cs \in SUBSET Comments,
         Holder # None, JoinRun(kind, a, cs)
  PROVE  Sound(run, wake)' /\ Steady({})
<1>1. PICK w \in Rows :
        /\ FreshWake(w)
        /\ run' = [RunsBehind EXCEPT ![Holder].ctx = @ \cup cs, ![Holder].kind = kind]
        /\ wake' = [WakesBehind EXCEPT ![w] = WakeRow("coalesced", a, kind, cs, {}, Holder)]
  BY DEF JoinRun
<1>2. Holder \in Rows /\ Active(Holder) /\ Holder \notin StaleHolders
  BY HolderActive
<1>3. Sound(RunsBehind, WakesBehind) /\ RunsBehind \in RunRows /\ WakesBehind \in WakeRows
  BY Behind DEF Sound
<1>4. WakesBehind[w].st = "none"
  BY <1>1, UntouchedBehind DEF FreshWake
<1>5. RunsBehind[Holder].st # "none"
  BY <1>2, Behind DEF Active, Waiting
<1>6. run' \in RunRows
  <2>1. RunsBehind[Holder] \in RunRecord
    BY <1>2, <1>3 DEF RunRows
  <2>2. [RunsBehind[Holder] EXCEPT !.ctx = @ \cup cs, !.kind = kind] \in RunRecord
    BY <2>1 DEF RunRecord
  <2>3. QED
    BY <1>1, <1>2, <1>3, <2>2 DEF RunRows
<1>7. wake' \in WakeRows
  <2>1. WakeRow("coalesced", a, kind, cs, {}, Holder) \in WakeRecord
    BY <1>2 DEF WakeRow, WakeRecord, WakeStatus
  <2>2. QED
    BY <1>1, <1>3, <2>1 DEF WakeRows
<1>8. /\ \A r \in Rows \ {Holder} : run'[r] = RunsBehind[r]
      /\ run'[Holder].st = RunsBehind[Holder].st /\ run'[Holder].wake = RunsBehind[Holder].wake
      /\ run'[Holder].of = RunsBehind[Holder].of
      /\ run'[Holder].started = RunsBehind[Holder].started
      /\ RunsBehind[Holder].ctx \subseteq run'[Holder].ctx
  BY <1>1, <1>2, <1>3 DEF RunRows, RunRecord
<1>9. /\ w \in Rows /\ \A v \in Rows \ {w} : wake'[v] = WakesBehind[v]
      /\ wake'[w].st = "coalesced" /\ wake'[w].run = Holder
  BY <1>1, <1>3 DEF WakeRows, WakeRow
<1>10. Sound(run', wake')
  BY <1>2, <1>3, <1>4, <1>5, <1>6, <1>7, <1>8, <1>9, SoundJoin
<1>11. Steady({})
  <2>1. ~Ended(Holder) /\ \A r \in Rows : ~Waiting(r) => RunsBehind[r] = run[r]
    BY <1>2, Behind DEF Active, Ended, Waiting
  <2>2. ASSUME NEW r \in Rows, Ended(r)
        PROVE  Ended(r)' /\ run'[r] = run[r]
    BY <1>8, <2>1, <2>2 DEF Ended, Waiting
  <2>3. ASSUME NEW r \in Rows, run[r].st = "running"
        PROVE  run'[r].st = "running"
    BY <1>2, <1>8, <2>1, <2>3 DEF Waiting
  <2>4. QED
    BY <2>2, <2>3 DEF Steady
<1>12. QED
  BY <1>10, <1>11

LEMMA DeferWakeStep ==
  ASSUME IInv, NEW kind \in Kinds, NEW a \in Agents, NEW cs \in SUBSET Comments,
         DeferWake(kind, a, cs)
  PROVE  Sound(run, wake)' /\ Steady({})
<1>1. Sound(RunsBehind, WakesBehind) /\ RunsBehind \in RunRows /\ WakesBehind \in WakeRows
  BY Behind DEF Sound
<1>2. run' = RunsBehind
  BY DEF DeferWake
<1>3. ASSUME DeferredFor(a) # {}
      PROVE  Sound(RunsBehind, wake')
  <2> DEFINE w == Oldest(DeferredFor(a))
  <2>1. w \in Rows /\ wake[w].st = "deferred"
    <3>1. DeferredFor(a) \in SUBSET Rows
      BY DEF DeferredFor, Deferred
    <3>2. w \in DeferredFor(a)
      BY <1>3, <3>1, OldestIn
    <3>3. QED
      BY <3>2 DEF DeferredFor, Deferred
  <2>2. wake' = [WakesBehind EXCEPT ![w].env = @ \cup cs, ![w].msg = @ \cup cs, ![w].kind = kind]
    BY <1>3 DEF DeferWake
  <2> HIDE DEF w
  <2>3. wake' \in WakeRows
    <3>1. WakesBehind[w] \in WakeRecord
      BY <1>1, <2>1 DEF WakeRows
    <3>2. [WakesBehind[w] EXCEPT !.env = @ \cup cs, !.msg = @ \cup cs, !.kind = kind] \in WakeRecord
      BY <3>1 DEF WakeRecord
    <3>3. QED
      BY <1>1, <2>1, <2>2, <3>2 DEF WakeRows
  <2>4. /\ \A v \in Rows \ {w} : wake'[v] = WakesBehind[v]
        /\ wake'[w].st = WakesBehind[w].st /\ wake'[w].run = WakesBehind[w].run
    BY <1>1, <2>1, <2>2 DEF WakeRows, WakeRecord
  <2>5. WakesBehind[w].st = "deferred" /\ WakesBehind[w].run = None
    BY <1>1, <2>1, UntouchedBehind DEF Sound, OwnRun
  <2>6. QED
    BY <1>1, <2>3, <2>4, <2>5, SoundSaved
<1>4. ASSUME NEW w \in Rows, FreshWake(w),
             wake' = [WakesBehind EXCEPT ![w] = WakeRow("deferred", a, kind, cs, cs, None)]
      PROVE  Sound(RunsBehind, wake')
  <2>1. wake' \in WakeRows
    BY <1>1, <1>4 DEF WakeRows, WakeRecord, WakeRow, WakeStatus
  <2>2. /\ \A v \in Rows \ {w} : wake'[v] = WakesBehind[v]
        /\ wake'[w].st = "deferred" /\ wake'[w].run = None
    BY <1>1, <1>4 DEF WakeRows, WakeRow
  <2>3. WakesBehind[w].st = "none"
    BY <1>4, UntouchedBehind DEF FreshWake
  <2>4. QED
    BY <1>1, <2>1, <2>2, <2>3, SoundSaved
<1>5. Sound(run', wake')
  BY <1>2, <1>3, <1>4 DEF DeferWake
<1>6. Steady({})
  BY <1>2, Behind DEF Steady, Ended, Waiting
<1>7. QED
  BY <1>5, <1>6

\* The wakes that a new run adopts are saved.
LEMMA AdoptedSaved ==
  ASSUME NEW a, NEW from
  PROVE  Adopted(a, from) \subseteq Rows /\ \A v \in Adopted(a, from) : wake[v].st = "deferred"
BY DEF Adopted, Deferred

LEMMA StartRunStep ==
  ASSUME IInv, NEW kind \in Kinds, NEW a \in Agents, NEW cs \in SUBSET Comments, NEW from,
         StartRun(kind, a, cs, from)
  PROVE  Sound(run, wake)' /\ Steady({})
<1> DEFINE adopted == Adopted(a, from)
           saved   == UNION {wake[v].env : v \in adopted}
           ids     == cs \cup (IF from = None THEN saved ELSE LiveIds(saved))
<1>1. PICK w \in Rows, n \in Rows :
        /\ FreshWake(w) /\ FreshRun(n)
        /\ run' = [RunsBehind EXCEPT ![n] = QueuedRun(a, w, kind, ids, "no")]
        /\ wake' = [v \in Rows |->
             CASE v = w -> WakeRow("queued", a, kind, cs, IF adopted = {} THEN {} ELSE ids, n)
               [] v \in adopted -> [wake[v] EXCEPT !.st = "coalesced", !.run = n]
               [] OTHER -> WakesBehind[v]]
  BY DEF StartRun
<1>2. /\ Sound(RunsBehind, WakesBehind) /\ RunsBehind \in RunRows /\ WakesBehind \in WakeRows
      /\ wake \in WakeRows
  BY Behind DEF Sound, IInv
<1>3. adopted \subseteq Rows /\ \A v \in adopted : wake[v].st = "deferred"
  BY AdoptedSaved
<1>4. ids \in SUBSET Comments
  <2>1. \A v \in adopted : wake[v].env \subseteq Comments
    BY <1>2, <1>3 DEF WakeRows, WakeRecord
  <2>2. saved \subseteq Comments /\ LiveIds(saved) \subseteq saved
    BY <2>1 DEF LiveIds
  <2>3. QED
    BY <2>2
<1> HIDE DEF adopted, saved, ids
<1>5. run' \in RunRows
  BY <1>1, <1>2, <1>4 DEF RunRows, RunRecord, QueuedRun, RunStatus, Status, None
<1>6. wake' \in WakeRows
  <2>1. ASSUME NEW v \in Rows
        PROVE  wake'[v] \in WakeRecord
    <3>1. WakeRow("queued", a, kind, cs, IF adopted = {} THEN {} ELSE ids, n) \in WakeRecord
      BY <1>1, <1>4 DEF WakeRow, WakeRecord, WakeStatus
    <3>2. [wake[v] EXCEPT !.st = "coalesced", !.run = n] \in WakeRecord
      BY <1>1, <1>2 DEF WakeRows, WakeRecord, WakeStatus
    <3>3. WakesBehind[v] \in WakeRecord
      BY <1>2 DEF WakeRows
    <3>4. QED
      BY <1>1, <3>1, <3>2, <3>3
  <2>2. QED
    BY <1>1, <2>1 DEF WakeRows
<1>7. /\ w \in Rows /\ n \in Rows
      /\ RunsBehind[n].st = "none" /\ UsedUpTo(RunsBehind, n)
      /\ WakesBehind[w].st = "none"
  <2>1. run[n].st = "none" /\ \A q \in Rows : q < n => run[q].st # "none"
    BY <1>1 DEF FreshRun
  <2>2. \A q \in Rows : (RunsBehind[q].st = "none") <=> (run[q].st = "none")
    <3> TAKE q \in Rows
    <3>1. CASE q \in StaleHolders
      <4>1. run[q] \in RunRecord /\ RunsBehind[q] = [run[q] EXCEPT !.st = "cancelled"]
        BY <3>1, Behind DEF IInv, Sound, RunRows
      <4>2. run[q].st # "none" /\ RunsBehind[q].st # "none"
        BY <3>1, <4>1, StaleHoldersWait DEF RunRecord, IInv, Waiting
      <4>3. QED
        BY <4>2
    <3>2. CASE q \notin StaleHolders
      BY <3>2, Behind
    <3>3. QED
      BY <3>1, <3>2
  <2>3. QED
    BY <1>1, <2>1, <2>2, UntouchedBehind DEF FreshWake, UsedUpTo
<1>8. /\ \A r \in Rows \ {n} : run'[r] = RunsBehind[r]
      /\ run'[n].wake = w /\ run'[n].st = "queued" /\ run'[n].of = None /\ run'[n].ctx = ids
  BY <1>1, <1>2 DEF RunRows, QueuedRun
<1>9. wake'[w].st = "queued" /\ wake'[w].run = n /\ wake'[w].env \subseteq ids
  <2>1. wake'[w] = WakeRow("queued", a, kind, cs, IF adopted = {} THEN {} ELSE ids, n)
    BY <1>1, <1>3 DEF FreshWake
  <2>2. QED
    BY <2>1 DEF WakeRow
<1>10. ASSUME NEW v \in Rows \ {w}
       PROVE  \/ wake'[v] = WakesBehind[v]
              \/ WakesBehind[v].st = "deferred" /\ wake'[v].st = "coalesced" /\ wake'[v].run = n
  <2>1. CASE v \in adopted
    <3>1. wake'[v] = [wake[v] EXCEPT !.st = "coalesced", !.run = n] /\ wake[v] \in WakeRecord
      BY <1>1, <1>2, <2>1 DEF WakeRows
    <3>2. WakesBehind[v].st = "deferred"
      BY <1>3, <2>1, UntouchedBehind
    <3>3. QED
      BY <3>1, <3>2 DEF WakeRecord
  <2>2. CASE v \notin adopted
    BY <1>1, <2>2
  <2>3. QED
    BY <2>1, <2>2
<1>11. /\ Waits(run'[n]) /\ (run'[n].of # None => Over(RunsBehind[run'[n].of]))
       /\ (run'[n].st = "scheduled" => run'[n].of # None)
       /\ wake'[w].env \subseteq run'[n].ctx
  BY <1>8, <1>9 DEF Waits
<1>12. Sound(run', wake')
  BY <1>2, <1>5, <1>6, <1>7, <1>8, <1>9, <1>10, <1>11, SoundNew
<1>13. Steady({})
  BY <1>7, <1>8, Behind DEF Steady, Ended, Waiting
<1>14. QED
  BY <1>12, <1>13

\* A wake, whatever it finds, in the transaction that holds the issue's lock.
LEMMA EnqueueStep ==
  ASSUME IInv, NEW kind \in Kinds, NEW a \in Agents, NEW cs \in SUBSET Comments, NEW from,
         Enqueue(kind, a, cs, from)
  PROVE  Sound(run, wake)' /\ Steady({}) /\ issue' \in IssueRows
<1>1. Sound(run, wake)' /\ Steady({})
  <2>1. CASE Joins(a, cs) /\ JoinRun(kind, a, cs)
    BY <2>1, JoinRunStep DEF Joins
  <2>2. CASE DeferWake(kind, a, cs)
    BY <2>2, DeferWakeStep
  <2>3. CASE StartRun(kind, a, cs, from)
    BY <2>3, StartRunStep
  <2>4. QED
    BY <2>1, <2>2, <2>3 DEF Enqueue
<1>2. Holder \in Rows \cup {None}
  BY HolderActive
<1>3. issue' \in IssueRows
  BY <1>2 DEF Enqueue, IInv, Typed, IssueRows
<1>4. QED
  BY <1>1, <1>3

------------------------------------------------------------------------------
(* One run, and its own wake.                                                 *)

\* A run ends, and its own wake with it.
LEMMA EndStep ==
  ASSUME IInv, NEW r \in Rows, Active(r),
         NEW x \in {"succeeded", "failed", "cancelled"}, NEW stop \in BOOLEAN,
         NEW y \in {"completed", "skipped", "failed", "cancelled"},
         run' = [run EXCEPT ![r].st = x, ![r].stopped = stop],
         wake' = [wake EXCEPT ![run[r].wake].st = y]
  PROVE  Sound(run, wake)' /\ Steady({r}) /\ Ended(r)'
<1>1. /\ Sound(run, wake) /\ run \in RunRows /\ wake \in WakeRows
      /\ run[r] \in RunRecord /\ run[r].wake \in Rows
  BY DEF IInv, Sound, RunRows, RunRecord
<1>2. run' \in RunRows /\ wake' \in WakeRows
  <2>1. run' \in RunRows
    BY <1>1 DEF RunRows, RunRecord, RunStatus
  <2>2. wake' \in WakeRows
    BY <1>1 DEF WakeRows, WakeRecord, WakeStatus
  <2>3. QED
    BY <2>1, <2>2
<1>3. /\ \A q \in Rows \ {r} : run'[q] = run[q]
      /\ run'[r].st = x /\ run'[r].wake = run[r].wake
      /\ run'[r].ctx = run[r].ctx /\ run'[r].of = run[r].of
  BY <1>1 DEF RunRows, RunRecord
<1>4. /\ \A w \in Rows \ {run[r].wake} : wake'[w] = wake[w]
      /\ wake'[run[r].wake].st = y /\ wake'[run[r].wake].run = wake[run[r].wake].run
      /\ wake'[run[r].wake].env = wake[run[r].wake].env
  BY <1>1 DEF WakeRows, WakeRecord
<1>5. Waits(run[r]) \/ run[r].st = "running"
  BY DEF Active, Waiting, Waits
<1>6. Over(run'[r])
  BY <1>3 DEF Over
<1>7. RunsEnd({r}, run, run') /\ WakesEnd({r}, run, wake, wake')
  BY <1>3, <1>4, <1>5, <1>6 DEF RunsEnd, WakesEnd
<1>8. Sound(run', wake')
  BY <1>1, <1>2, <1>7, SoundEnd
<1>9. Steady({r}) /\ Ended(r)'
  BY <1>3, <1>5, <1>6 DEF Steady, Ended, Waits, Over
<1>10. QED
  BY <1>8, <1>9

\* The wake of an active run is not cancelled, so that its status is written.
LEMMA WakeSetWritten ==
  ASSUME IInv, NEW r \in Rows, Active(r), NEW y
  PROVE  WakeSet(run[r].wake, y) = [wake EXCEPT ![run[r].wake].st = y]
BY DEF WakeSet, IInv, Sound, OwnWake, Active, Waiting, Waits

LEMMA CancelRowsStep ==
  ASSUME IInv, NEW r \in Rows, Waiting(r), NEW y \in {"skipped", "cancelled"}, CancelRows(r, y)
  PROVE  Sound(run, wake)' /\ Steady({}) /\ issue' \in IssueRows
<1>1. run \in RunRows /\ run[r] \in RunRecord
  BY DEF IInv, Sound, RunRows
<1>2. run' = [run EXCEPT ![r].st = "cancelled", ![r].stopped = run[r].stopped]
  BY <1>1 DEF CancelRows, RunRows, RunRecord
<1>3. Sound(run, wake)' /\ Steady({r})
  BY <1>1, <1>2, EndStep DEF CancelRows, Active, RunRecord
<1>4. Steady({})
  BY <1>3 DEF Steady, Waiting
<1>5. issue' \in IssueRows
  BY RowsAreNumbers DEF CancelRows, Unlocked, IInv, Typed, IssueRows
<1>6. QED
  BY <1>3, <1>4, <1>5

\* An active run takes another status, and so may its wake.
LEMMA MoveStep ==
  ASSUME IInv, NEW r \in Rows, Active(r), run' \in RunRows, wake' \in WakeRows,
         run'[r].st \in {"queued", run[r].st} \/ run'[r].st = "running",
         run'[r].wake = run[r].wake, run'[r].of = run[r].of,
         run'[r].st = "running" => run'[r].started,
         \A q \in Rows \ {r} : run'[q] = run[q],
         \A w \in Rows \ {run[r].wake} : wake'[w] = wake[w],
         wake'[run[r].wake].run = wake[run[r].wake].run,
         wake'[run[r].wake].st \in {"queued", "claimed"},
         Waits(run'[r]) => wake'[run[r].wake].st = "queued",
         wake'[run[r].wake].env \subseteq run'[r].ctx
  PROVE  Sound(run, wake)' /\ Steady({r})
<1>1. Sound(run, wake) /\ (Waits(run[r]) \/ run[r].st = "running")
  BY DEF IInv, Active, Waiting, Waits
<1>2. wake'[run[r].wake].run = r
  BY <1>1 DEF Sound, OwnWake, Waits
<1>3. Sound(run', wake')
  BY <1>1, <1>2, SoundMove
<1>4. Steady({r})
  BY <1>1 DEF Steady, Ended, Waits
<1>5. QED
  BY <1>3, <1>4

------------------------------------------------------------------------------
(* The controller process.                                                    *)

Busy(r) == proc[r] \in {"claimed", "starting"}

\* Putting a step together: the tables, the types of the rest, and the process, which
\* may only be about to start a run that runs, and only releases runs that ended.
LEMMA Assemble ==
  ASSUME IInv, Sound(run, wake)', Typed', NEW S, Steady(S),
         \A r \in Rows : Busy(r)' => run'[r].st = "running" \/ (Busy(r) /\ r \notin S),
         \A r \in Rows : \A how \in Settlement :
           <<r, how>> \in settle' => <<r, how>> \in settle \/ Ended(r)'
  PROVE  IInv'
<1>1. \A r \in Rows : Busy(r)' => run'[r].st = "running"
  BY DEF IInv, Driven, Busy, Steady
<1>2. \A r \in Rows : \A how \in Settlement : <<r, how>> \in settle' => Ended(r)'
  BY DEF IInv, Driven, Steady
<1>3. QED
  BY <1>1, <1>2 DEF IInv, Driven, Busy

\* Steps that do not touch the tables.
LEMMA TablesKept ==
  ASSUME IInv, UNCHANGED <<run, wake>>
  PROVE  Sound(run, wake)' /\ Steady({})
BY DEF IInv, Steady, Ended

LEMMA PlainStep ==
  ASSUME IInv, Typed', UNCHANGED <<run, wake, proc, settle>>
  PROVE  IInv'
<1>1. Sound(run, wake)' /\ Steady({})
  BY TablesKept
<1>2. QED
  BY <1>1, Assemble DEF Busy

LEMMA GateStep ==
  ASSUME IInv, NEW r \in Rows, Gate(r)
  PROVE  IInv'
<1>1. CASE Stale(r) /\ CancelRows(r, "skipped") /\ UNCHANGED proc
  <2>1. Sound(run, wake)' /\ Steady({}) /\ issue' \in IssueRows
    BY <1>1, CancelRowsStep DEF Gate, Waiting
  <2>2. Typed'
    BY <1>1, <2>1 DEF Gate, Typed, IInv
  <2>3. QED
    BY <1>1, <2>1, <2>2, Assemble DEF Gate, Busy
<1>2. CASE proc' = [proc EXCEPT ![r] = "gated"] /\ UNCHANGED <<run, wake, issue>>
  <2>1. Sound(run, wake)' /\ Steady({})
    BY <1>2, TablesKept
  <2>2. Typed'
    BY <1>2 DEF Gate, Typed, IInv, Phases
  <2>3. \A q \in Rows : Busy(q)' => Busy(q)
    BY <1>2 DEF IInv, Typed, Busy
  <2>4. QED
    BY <1>2, <2>1, <2>2, <2>3, Assemble DEF Gate
<1>3. QED
  BY <1>1, <1>2 DEF Gate

\* The claim commits: the run takes over its wake's messages that are left.
LEMMA TakeRunStep ==
  ASSUME IInv, NEW r \in Rows, Claimable(r), TakeRun(r)
  PROVE  /\ Sound(run, wake)' /\ Steady({r}) /\ issue' \in IssueRows
         /\ run'[r].st = "running"
<1> DEFINE w == run[r].wake
           enveloped == run[r].ctx # {} /\ wake[w].env # {}
           ids == LiveIds(wake[w].env)
<1>1. /\ run \in RunRows /\ wake \in WakeRows /\ run[r] \in RunRecord /\ w \in Rows
      /\ wake[w] \in WakeRecord
  BY DEF IInv, Sound, RunRows, WakeRows, RunRecord
<1>2. /\ run[r].st = "queued" /\ Active(r) /\ wake[w].st = "queued" /\ wake[w].run = r
      /\ wake[w].env \subseteq run[r].ctx
  BY <1>1 DEF Claimable, IInv, Sound, OwnWake, Enclosed, Waits, Active, Waiting
<1>3. ids \in SUBSET Comments /\ ids \subseteq wake[w].env
  BY <1>1 DEF LiveIds, WakeRecord
<1>4. run' = [run EXCEPT ![r].st = "running", ![r].started = TRUE,
                         ![r].ctx = IF enveloped THEN ids ELSE @]
  BY DEF TakeRun
<1>5. wake' = IF enveloped THEN [wake EXCEPT ![w].st = "claimed", ![w].env = ids] ELSE wake
  BY DEF TakeRun
<1> HIDE DEF w, enveloped, ids
<1>6. run' \in RunRows /\ run'[r].st = "running" /\ run'[r].started
  BY <1>1, <1>3, <1>4 DEF RunRows, RunRecord, RunStatus
<1>7. /\ run'[r].wake = w /\ run'[r].of = run[r].of
      /\ run'[r].ctx = IF enveloped THEN ids ELSE run[r].ctx
      /\ \A q \in Rows \ {r} : run'[q] = run[q]
  BY <1>1, <1>4 DEF RunRows, RunRecord, w
<1>8. wake' \in WakeRows
  BY <1>1, <1>3, <1>5 DEF WakeRows, WakeRecord, WakeStatus
<1>9. /\ wake'[w].st \in {"queued", "claimed"} /\ wake'[w].run = wake[w].run
      /\ wake'[w].env \subseteq run'[r].ctx
      /\ \A v \in Rows \ {w} : wake'[v] = wake[v]
  BY <1>1, <1>2, <1>5, <1>7 DEF WakeRows, WakeRecord
<1>10. Sound(run, wake)' /\ Steady({r})
  BY <1>2, <1>6, <1>7, <1>8, <1>9, MoveStep DEF w, Waits
<1>11. issue' \in IssueRows
  BY DEF TakeRun, IInv, Typed, IssueRows
<1>12. QED
  BY <1>6, <1>10, <1>11

LEMMA ClaimStep ==
  ASSUME IInv, NEW r \in Rows, Claim(r)
  PROVE  IInv'
<1>1. proc \in [Rows -> Phases] /\ UNCHANGED settle
  BY DEF IInv, Typed, Claim
<1>2. CASE proc' = [proc EXCEPT ![r] = "idle"] /\ UNCHANGED <<run, wake, issue>>
  <2>1. Typed' /\ \A q \in Rows : Busy(q)' => Busy(q)
    BY <1>1, <1>2 DEF Claim, Typed, IInv, Phases, Busy
  <2>2. QED
    BY <1>1, <1>2, <2>1, TablesKept, Assemble
<1>3. CASE Claimable(r) /\ CancelRows(r, "cancelled") /\ proc' = [proc EXCEPT ![r] = "idle"]
  <2>1. Sound(run, wake)' /\ Steady({}) /\ issue' \in IssueRows
    BY <1>3, CancelRowsStep DEF Claimable, Waiting
  <2>2. Typed' /\ \A q \in Rows : Busy(q)' => Busy(q)
    BY <1>1, <1>3, <2>1 DEF Claim, Typed, IInv, Phases, Busy
  <2>3. QED
    BY <1>1, <2>1, <2>2, Assemble
<1>4. CASE Claimable(r) /\ TakeRun(r) /\ proc' = [proc EXCEPT ![r] = "claimed"]
  <2>1. Sound(run, wake)' /\ Steady({r}) /\ issue' \in IssueRows /\ run'[r].st = "running"
    BY <1>4, TakeRunStep
  <2>2. Typed' /\ \A q \in Rows \ {r} : Busy(q)' => Busy(q)
    BY <1>1, <1>4, <2>1 DEF Claim, Typed, IInv, Phases, Busy
  <2>3. QED
    BY <1>1, <2>1, <2>2, Assemble
<1>5. QED
  BY <1>2, <1>3, <1>4 DEF Claim

LEMMA StampClaimStep ==
  ASSUME IInv, NEW r \in Rows, StampClaim(r)
  PROVE  IInv'
<1>1. /\ run[r].st = "running" /\ Active(r)
      /\ proc \in [Rows -> Phases] /\ UNCHANGED <<run, settle>>
      /\ run \in RunRows /\ wake \in WakeRows /\ run[r].wake \in Rows
  BY DEF IInv, Typed, Driven, StampClaim, Active, Sound, RunRows, RunRecord
<1>2. wake' = [wake EXCEPT ![run[r].wake].st = "claimed"]
  BY <1>1, WakeSetWritten DEF StampClaim
<1>3. wake' \in WakeRows
  BY <1>1, <1>2 DEF WakeRows, WakeRecord, WakeStatus
<1>4. /\ \A w \in Rows \ {run[r].wake} : wake'[w] = wake[w]
      /\ wake'[run[r].wake].st = "claimed" /\ wake'[run[r].wake].run = wake[run[r].wake].run
      /\ wake'[run[r].wake].env = wake[run[r].wake].env
  BY <1>1, <1>2 DEF WakeRows, WakeRecord
<1>5. wake[run[r].wake].env \subseteq run[r].ctx /\ run[r].started
  BY <1>1 DEF IInv, Sound, OwnWake, Enclosed, Chained
<1>6. Sound(run, wake)' /\ Steady({r})
  BY <1>1, <1>3, <1>4, <1>5, MoveStep DEF Waits
<1>7. Typed' /\ \A q \in Rows : Busy(q)' => Busy(q)
  BY <1>1 DEF StampClaim, Typed, IInv, IssueRows, Phases, Busy
<1>8. QED
  BY <1>1, <1>6, <1>7, Assemble

LEMMA ReleaseClaimStep ==
  ASSUME IInv, NEW r \in Rows, ReleaseClaim(r)
  PROVE  IInv'
<1>1. /\ run[r].st = "running" /\ Active(r)
      /\ proc \in [Rows -> Phases] /\ UNCHANGED settle
      /\ run \in RunRows /\ wake \in WakeRows /\ run[r].wake \in Rows
  BY DEF IInv, Typed, ReleaseClaim, Active, Sound, RunRows, RunRecord
<1>2. /\ wake' = [wake EXCEPT ![run[r].wake].st = "queued"]
      /\ run' = [run EXCEPT ![r].st = "queued", ![r].started = FALSE]
  BY <1>1, WakeSetWritten DEF ReleaseClaim
<1>3. wake' \in WakeRows /\ run' \in RunRows
  <2>1. wake' \in WakeRows
    BY <1>1, <1>2 DEF WakeRows, WakeRecord, WakeStatus
  <2>2. run' \in RunRows
    <3>1. run[r] \in RunRecord
      BY <1>1 DEF RunRows
    <3>2. [run[r] EXCEPT !.st = "queued", !.started = FALSE] \in RunRecord
      BY <3>1 DEF RunRecord, RunStatus
    <3>3. run' = [run EXCEPT ![r] = [run[r] EXCEPT !.st = "queued", !.started = FALSE]]
      BY <1>1, <1>2 DEF RunRows
    <3>4. QED
      BY <1>1, <3>2, <3>3 DEF RunRows
  <2>3. QED
    BY <2>1, <2>2
<1>4. /\ \A w \in Rows \ {run[r].wake} : wake'[w] = wake[w]
      /\ wake'[run[r].wake].st = "queued" /\ wake'[run[r].wake].run = wake[run[r].wake].run
      /\ wake'[run[r].wake].env = wake[run[r].wake].env
  BY <1>1, <1>2 DEF WakeRows, WakeRecord
<1>5. /\ \A q \in Rows \ {r} : run'[q] = run[q]
      /\ run'[r].st = "queued" /\ run'[r].wake = run[r].wake
      /\ run'[r].of = run[r].of /\ run'[r].ctx = run[r].ctx
  BY <1>1, <1>2 DEF RunRows, RunRecord
<1>6. wake[run[r].wake].env \subseteq run[r].ctx
  BY <1>1 DEF IInv, Sound, OwnWake, Enclosed
<1>7. Sound(run, wake)' /\ Steady({r})
  BY <1>1, <1>3, <1>4, <1>5, <1>6, MoveStep DEF Waits
<1>8. Typed' /\ \A q \in Rows : Busy(q)' => Busy(q) /\ q \notin {r}
  BY <1>1, RowsAreNumbers DEF ReleaseClaim, Typed, IInv, IssueRows, Unlocked, Phases, Busy
<1>9. QED
  BY <1>1, <1>7, <1>8, Assemble

LEMMA BeginStep ==
  ASSUME IInv, NEW r \in Rows, Begin(r)
  PROVE  IInv'
<1>1. Sound(run, wake)' /\ Steady({})
  BY TablesKept DEF Begin
<1>2. Typed' /\ \A q \in Rows : Busy(q)' => Busy(q)
  BY DEF Begin, Typed, IInv, Phases, Busy
<1>3. QED
  BY <1>1, <1>2, Assemble DEF Begin

LEMMA CheckoutStep ==
  ASSUME IInv, NEW r \in Rows, Checkout(r)
  PROVE  IInv'
<1>1. Typed'
  BY DEF Checkout, process, Typed, IInv, IssueRows, Status
<1>2. QED
  BY <1>1, PlainStep DEF Checkout, process

\* A run is stopped or finishes; its release is left to do.
LEMMA SettledStep ==
  ASSUME IInv, NEW r \in Rows, ~Busy(r), Sound(run, wake)', Steady({r}), Ended(r)',
         UNCHANGED <<issue, comment, proc, mail>>, Typed', NEW how \in Settlement,
         settle' \subseteq settle \cup {<<r, how>>}
  PROVE  IInv'
<1>1. \A q \in Rows : Busy(q)' => Busy(q) /\ q \notin {r}
  BY DEF Busy
<1>2. \A q \in Rows : \A h \in Settlement :
        <<q, h>> \in settle' => <<q, h>> \in settle \/ Ended(q)'
  <2> TAKE q \in Rows
  <2> TAKE h \in Settlement
  <2> HAVE <<q, h>> \in settle'
  <2>1. CASE <<q, h>> = <<r, how>>
    <3>1. q = r
      BY <2>1
    <3>2. QED
      BY <3>1
  <2>2. CASE <<q, h>> # <<r, how>>
    BY <2>2
  <2>3. QED
    BY <2>1, <2>2
<1>3. QED
  BY <1>1, <1>2, Assemble

LEMMA FinishStep ==
  ASSUME IInv, NEW r \in Rows, NEW outcome \in {"succeeded", "failed"}, Finish(r, outcome)
  PROVE  IInv'
<1> DEFINE y == IF outcome = "succeeded" THEN "completed" ELSE "failed"
<1>1. /\ Active(r) /\ run \in RunRows /\ run[r] \in RunRecord
      /\ y \in {"completed", "skipped", "failed", "cancelled"}
  BY DEF IInv, Finish, Active, Sound, RunRows
<1>2. wake' = [wake EXCEPT ![run[r].wake].st = y]
  BY <1>1, WakeSetWritten DEF Finish
<1>3. run' = [run EXCEPT ![r].st = outcome, ![r].stopped = run[r].stopped]
  BY <1>1 DEF Finish, RunRows, RunRecord
<1> HIDE DEF y
<1>4. Sound(run, wake)' /\ Steady({r}) /\ Ended(r)'
  BY <1>1, <1>2, <1>3, EndStep DEF RunRecord
<1>5. Typed' /\ ~Busy(r) /\ "ended" \in Settlement
  BY DEF Finish, Typed, IInv, Busy, Settlement
<1>6. QED
  BY <1>4, <1>5, SettledStep DEF Finish

LEMMA CleanupStep ==
  ASSUME IInv, NEW r \in Rows, Cleanup(r)
  PROVE  IInv'
<1>1. Sound(run, wake)' /\ Steady({})
  BY TablesKept DEF Cleanup
<1>2. Typed' /\ \A q \in Rows : Busy(q)' => Busy(q)
  BY DEF Cleanup, Typed, IInv, Phases, Settlement, Busy
<1>3. \A q \in Rows : \A h \in Settlement :
        <<q, h>> \in settle' => <<q, h>> \in settle \/ Ended(q)'
  BY DEF Cleanup, Ended
<1>4. QED
  BY <1>1, <1>2, <1>3, Assemble

------------------------------------------------------------------------------
(* Releases.                                                                  *)

\* The drain changes saved wakes only: it gives them up, or forgets their deleted
\* messages.
LEMMA DrainEffect ==
  ASSUME IInv, NEW r, NEW resume, NEW fact, NEW w \in Rows
  PROVE  LET wk == WakesDrained(r, resume, fact)
         IN  /\ wk[w] \in WakeRecord
             /\ \/ wk[w] = wake[w]
                \/ /\ w \in Drained(r, resume, fact) /\ wake[w].st = "deferred"
                   /\ wk[w].run = wake[w].run /\ wk[w].msg = wake[w].msg
                   /\ wk[w].agent = wake[w].agent /\ wk[w].kind = wake[w].kind
                   /\ \/ /\ wk[w].env = wake[w].env
                         /\ \/ wk[w].st = "failed"
                            \/ wk[w].st = "cancelled" /\ Disposition(w, r, resume, fact) = "cancel"
                      \/ wk[w].st = "deferred" /\ wk[w].env = LiveIds(wake[w].env)
<1> DEFINE d  == Disposition(w, r, resume, fact)
           wk == WakesDrained(r, resume, fact)
<1>1. wake[w] \in WakeRecord
  BY DEF IInv, Sound, WakeRows
<1>2. LiveIds(wake[w].env) \in SUBSET Comments
  BY <1>1 DEF LiveIds, WakeRecord
<1>3. CASE w \notin Drained(r, resume, fact)
  BY <1>1, <1>3 DEF WakesDrained
<1>4. CASE w \in Drained(r, resume, fact)
  <2>1. wake[w].st = "deferred"
    BY <1>4 DEF Drained, Deferred
  <2>2. \/ wk[w] = wake[w]
        \/ wk[w] = [wake[w] EXCEPT !.st = "cancelled"] /\ d = "cancel"
        \/ wk[w] = [wake[w] EXCEPT !.st = "failed"]
        \/ wk[w] = [wake[w] EXCEPT !.env = LiveIds(@)]
    <3> HIDE DEF d
    <3>1. wk[w] = CASE d = "cancel" -> [wake[w] EXCEPT !.st = "cancelled"]
                    [] d = "fail" -> [wake[w] EXCEPT !.st = "failed"]
                    [] d = "hold" -> [wake[w] EXCEPT !.env = LiveIds(@)]
                    [] OTHER -> wake[w]
      BY <1>4 DEF WakesDrained, d
    <3> HIDE DEF wk
    <3>2. QED
      BY <3>1
  <2> HIDE DEF wk, d
  <2>3. /\ wk[w] \in WakeRecord
        /\ wk[w].run = wake[w].run /\ wk[w].msg = wake[w].msg
        /\ wk[w].agent = wake[w].agent /\ wk[w].kind = wake[w].kind
        /\ \/ wk[w] = wake[w]
           \/ wk[w].st = "failed" /\ wk[w].env = wake[w].env
           \/ wk[w].st = "cancelled" /\ d = "cancel" /\ wk[w].env = wake[w].env
           \/ wk[w].st = "deferred" /\ wk[w].env = LiveIds(wake[w].env)
    <3>1. CASE wk[w] = wake[w]
      BY <1>1, <3>1
    <3>2. CASE wk[w] = [wake[w] EXCEPT !.st = "cancelled"] /\ d = "cancel"
      BY <1>1, <3>2 DEF WakeRecord, WakeStatus
    <3>3. CASE wk[w] = [wake[w] EXCEPT !.st = "failed"]
      BY <1>1, <3>3 DEF WakeRecord, WakeStatus
    <3>4. CASE wk[w] = [wake[w] EXCEPT !.env = LiveIds(@)]
      BY <1>1, <1>2, <2>1, <3>4 DEF WakeRecord, WakeStatus
    <3>5. QED
      BY <2>2, <3>1, <3>2, <3>3, <3>4
  <2>4. QED
    BY <1>4, <2>1, <2>3 DEF wk, d
<1>5. QED
  BY <1>3, <1>4

LEMMA DrainStep ==
  ASSUME IInv, NEW r, NEW resume, NEW fact
  PROVE  Sound(run, WakesDrained(r, resume, fact))
<1> DEFINE wk == WakesDrained(r, resume, fact)
<1>1. wk \in WakeRows
  BY DrainEffect DEF WakesDrained, WakeRows
<1>2. \A w \in Rows : \/ wk[w] = wake[w]
                      \/ /\ wake[w].st \in {"none", "deferred"} /\ wk[w].run = None
                         /\ wk[w].st \in {"deferred", "cancelled", "failed"}
  BY DrainEffect DEF IInv, Sound, OwnRun
<1> HIDE DEF wk
<1>3. Sound(run, wk)
  BY <1>1, <1>2, SoundSaved DEF IInv
<1>4. QED
  BY <1>3 DEF wk

LEMMA PromoteStep ==
  ASSUME IInv, NEW r, NEW resume, NEW fact, Promote(r, resume, fact)
  PROVE  Sound(run, wake)' /\ Steady({}) /\ issue' \in IssueRows
<1> DEFINE wk == WakesDrained(r, resume, fact)
<1>1. PICK w \in Promoted(r, resume, fact), n \in Rows :
        /\ FreshRun(n)
        /\ run' = [run EXCEPT ![n] = QueuedRun(wake[w].agent, w, wake[w].kind,
                                               LiveIds(wake[w].env), "no")]
        /\ wake' = [wk EXCEPT ![w].st = "queued", ![w].env = LiveIds(wake[w].env), ![w].run = n]
        /\ issue' = [issue EXCEPT
              !.exec = IF wake[w].agent = issue.assignee THEN n ELSE None,
              !.status = IF issue.status = "done" /\ LiveIds(wake[w].env) # {} THEN "todo" ELSE @]
  BY DEF Promote
<1>2. w \in Rows /\ wake[w].st = "deferred" /\ w \notin Drained(r, resume, fact)
  <2>1. w \in Deferred /\ Disposition(w, r, resume, fact) = "promote"
    BY DEF Promoted
  <2>2. w \in Rows /\ wake[w].st = "deferred"
    BY <2>1 DEF Deferred
  <2>3. w <= w
    BY <2>2 DEF Rows
  <2>4. QED
    BY <2>1, <2>2, <2>3 DEF Drained
<1>3. wk[w] = wake[w] /\ Sound(run, wk) /\ wk \in WakeRows /\ run \in RunRows
  BY <1>2, DrainStep DEF WakesDrained, IInv, Sound
<1> HIDE DEF wk
<1>4. wake[w] \in WakeRecord /\ LiveIds(wake[w].env) \in SUBSET Comments
  BY <1>2, <1>3 DEF WakeRows, WakeRecord, LiveIds
<1>5. run' \in RunRows
  BY <1>1, <1>2, <1>3, <1>4 DEF RunRows, RunRecord, WakeRecord, QueuedRun, RunStatus, None
<1>6. wake' \in WakeRows
  <2>1. [wk[w] EXCEPT !.st = "queued", !.env = LiveIds(wake[w].env), !.run = n] \in WakeRecord
    BY <1>1, <1>3, <1>4 DEF WakeRecord, WakeStatus
  <2>2. wake' = [wk EXCEPT ![w] = [wk[w] EXCEPT !.st = "queued", !.env = LiveIds(wake[w].env), !.run = n]]
    BY <1>1, <1>2, <1>3 DEF WakeRows
  <2>3. QED
    BY <1>3, <2>1, <2>2 DEF WakeRows
<1>7. /\ n \in Rows /\ run[n].st = "none" /\ UsedUpTo(run, n) /\ wk[w].st = "deferred"
  BY <1>1, <1>2, <1>3 DEF FreshRun, UsedUpTo
<1>8. /\ \A q \in Rows \ {n} : run'[q] = run[q]
      /\ run'[n].wake = w /\ run'[n].st = "queued" /\ run'[n].of = None
      /\ run'[n].ctx = LiveIds(wake[w].env)
  BY <1>1, <1>3 DEF RunRows, QueuedRun
<1>9. /\ wake'[w].st = "queued" /\ wake'[w].run = n /\ wake'[w].env = LiveIds(wake[w].env)
      /\ \A v \in Rows \ {w} : wake'[v] = wk[v]
  BY <1>1, <1>2, <1>3, <1>4 DEF WakeRows, WakeRecord
<1>10. Sound(run', wake')
  BY <1>2, <1>3, <1>5, <1>6, <1>7, <1>8, <1>9, SoundNew DEF Waits
<1>11. Steady({})
  BY <1>7, <1>8 DEF Steady, Ended
<1>12. issue' \in IssueRows
  BY <1>1 DEF IInv, Typed, IssueRows, Status
<1>13. QED
  BY <1>10, <1>11, <1>12

\* A new run that continues another, with a wake that is new.
LEMMA ContinueStep ==
  ASSUME IInv, NEW wk, Sound(run, wk), NEW r \in Rows, Ended(r), NEW n \in Rows, FreshRun(n),
         NEW w \in Rows, wk[w].st = "none", NEW new \in RunRecord,
         new.wake = w, new.of = r, Waits(new),
         run' = [run EXCEPT ![n] = new],
         wake' = [wk EXCEPT ![w] = WakeRow("queued", run[r].agent, "system", {}, {}, n)]
  PROVE  Sound(run, wake)' /\ Steady({})
<1>1. run \in RunRows /\ wk \in WakeRows /\ run[r].agent \in Agents
  BY DEF Sound, RunRows, RunRecord
<1>2. run' \in RunRows
  BY <1>1 DEF RunRows
<1>3. wake' \in WakeRows
  BY <1>1 DEF WakeRows, WakeRecord, WakeRow, WakeStatus, Kinds
<1>4. run[n].st = "none" /\ UsedUpTo(run, n)
  BY DEF FreshRun, UsedUpTo
<1>5. (\A q \in Rows \ {n} : run'[q] = run[q]) /\ run'[n] = new
  BY <1>1 DEF RunRows
<1>6. /\ wake'[w].st = "queued" /\ wake'[w].run = n /\ wake'[w].env = {}
      /\ \A v \in Rows \ {w} : wake'[v] = wk[v]
  BY <1>1 DEF WakeRows, WakeRow
<1>7. /\ (run'[n].of # None => Over(run[run'[n].of]))
      /\ (run'[n].st = "scheduled" => run'[n].of # None) /\ wake'[w].env \subseteq run'[n].ctx
  BY <1>5, <1>6, RowsAreNumbers DEF Ended, Over
<1>8. Sound(run', wake')
  <2>1. run'[n].wake = w /\ Waits(run'[n])
    BY <1>5
  <2>2. wk[w].st \in {"none", "deferred"}
    OBVIOUS
  <2>3. ASSUME NEW rn2 \in RunRows, rn2 = run', NEW wk2 \in WakeRows, wk2 = wake'
        PROVE  Sound(rn2, wk2)
    <3>1. /\ (\A q \in Rows \ {n} : rn2[q] = run[q]) /\ rn2[n].wake = w /\ Waits(rn2[n])
          /\ (rn2[n].of # None => Over(run[rn2[n].of]))
          /\ (rn2[n].st = "scheduled" => rn2[n].of # None)
      BY <1>5, <1>7, <2>1, <2>3
    <3>2. /\ wk2[w].st = "queued" /\ wk2[w].run = n /\ wk2[w].env \subseteq rn2[n].ctx
          /\ \A v \in Rows \ {w} : wk2[v] = wk[v]
      BY <1>6, <1>7, <2>3
    <3>3. QED
      BY <1>4, <2>2, <3>1, <3>2, SoundNew
  <2>4. QED
    BY <1>2, <1>3, <2>3
<1>9. Steady({})
  BY <1>4, <1>5 DEF Steady, Ended
<1>10. QED
  BY <1>8, <1>9

LEMMA RecoverStep ==
  ASSUME IInv, NEW r \in Rows, Ended(r), NEW resume, NEW fact, Recover(r, resume, fact)
  PROVE  Sound(run, wake)' /\ Steady({}) /\ issue' \in IssueRows
<1> DEFINE wk == WakesDrained(r, resume, fact)
<1>1. PICK w \in Rows, n \in Rows :
        /\ FreshWake(w) /\ FreshRun(n)
        /\ run' = [run EXCEPT ![n] = [QueuedRun(run[r].agent, w, "system", {}, issue.status)
                                        EXCEPT !.of = r]]
        /\ wake' = [wk EXCEPT ![w] = WakeRow("queued", run[r].agent, "system", {}, {}, n)]
        /\ issue' = [issue EXCEPT !.exec = n]
  BY DEF Recover
<1> DEFINE new == [QueuedRun(run[r].agent, w, "system", {}, issue.status) EXCEPT !.of = r]
<1>2. /\ run[r].agent \in Agents /\ issue.status \in Status /\ Sound(run, wk)
      /\ wk[w].st = "none"
  <2>1. wk[w] = wake[w]
    BY <1>1, DrainEffect DEF FreshWake
  <2>2. QED
    BY <1>1, <2>1, DrainStep DEF FreshWake, IInv, Sound, Typed, IssueRows, RunRows, RunRecord
<1> HIDE DEF wk
<1>3. new \in RunRecord /\ new.wake = w /\ new.of = r /\ Waits(new)
  BY <1>2 DEF QueuedRun, RunRecord, RunStatus, Kinds, Waits
<1> HIDE DEF new
<1>4. run' = [run EXCEPT ![n] = new]
  BY <1>1 DEF new
<1>5. Sound(run, wake)' /\ Steady({})
  BY <1>1, <1>2, <1>3, <1>4, ContinueStep
<1>6. issue' \in IssueRows
  BY <1>1 DEF IInv, Typed, IssueRows
<1>7. QED
  BY <1>5, <1>6

LEMMA RetryOfStep ==
  ASSUME IInv, NEW r \in Rows, Ended(r), RetryOf(r)
  PROVE  Sound(run, wake)' /\ Steady({}) /\ issue' \in IssueRows
<1>1. PICK w \in Rows, n \in Rows :
        /\ FreshWake(w) /\ FreshRun(n)
        /\ run' = [run EXCEPT ![n] = [QueuedRun(run[r].agent, w, "system", run[r].ctx, "no")
                                        EXCEPT !.st = "scheduled", !.of = r]]
        /\ wake' = [wake EXCEPT ![w] = WakeRow("queued", run[r].agent, "system", {}, {}, n)]
        /\ issue' = IF issue.exec = r THEN [issue EXCEPT !.exec = n] ELSE issue
  BY DEF RetryOf
<1> DEFINE new == [QueuedRun(run[r].agent, w, "system", run[r].ctx, "no")
                     EXCEPT !.st = "scheduled", !.of = r]
<1>2. /\ run[r].agent \in Agents /\ run[r].ctx \in SUBSET Comments /\ Sound(run, wake)
      /\ wake[w].st = "none"
  BY <1>1 DEF FreshWake, IInv, Sound, RunRows, RunRecord
<1>3. new \in RunRecord /\ new.wake = w /\ new.of = r /\ Waits(new)
  BY <1>2 DEF QueuedRun, RunRecord, RunStatus, Kinds, Waits
<1> HIDE DEF new
<1>4. run' = [run EXCEPT ![n] = new]
  BY <1>1 DEF new
<1>5. Sound(run, wake)' /\ Steady({})
  BY <1>1, <1>2, <1>3, <1>4, ContinueStep
<1>6. issue' \in IssueRows
  BY <1>1 DEF IInv, Typed, IssueRows
<1>7. QED
  BY <1>5, <1>6

\* The release of an ended run, and the drain.
LEMMA ReleaseIssueStep ==
  ASSUME IInv, NEW r \in Rows, Ended(r), NEW quiet, NEW resume, NEW fact,
         ReleaseIssue(r, quiet, resume, fact)
  PROVE  Sound(run, wake)' /\ Steady({}) /\ issue' \in IssueRows
<1>1. Unlocked(r) \in IssueRows
  BY DEF Unlocked, IInv, Typed, IssueRows
<1>2. CASE issue' = Unlocked(r) /\ UNCHANGED <<run, wake>>
  BY <1>1, <1>2, TablesKept
<1>3. CASE Promote(r, resume, fact)
  BY <1>3, PromoteStep
<1>4. CASE Recover(r, resume, fact)
  BY <1>4, RecoverStep
<1>5. CASE issue' = Unlocked(r) /\ wake' = WakesDrained(r, resume, fact) /\ UNCHANGED run
  BY <1>1, <1>5, DrainStep DEF Steady, Ended
<1>6. QED
  BY <1>2, <1>3, <1>4, <1>5 DEF ReleaseIssue

\* The handler of a run that ended performs its release.
LEMMA ReleaseStep ==
  ASSUME IInv, NEW r \in Rows, NEW how \in Settlement, Release(r, how)
  PROVE  IInv'
<1>1. PICK fact \in [Agents -> Facts] : ReleaseWith(r, how, fact)
  BY DEF Release
<1>2. Ended(r)
  BY <1>1 DEF ReleaseWith, IInv, Driven
<1>3. Sound(run, wake)' /\ Steady({}) /\ issue' \in IssueRows
  BY <1>1, <1>2, ReleaseIssueStep DEF ReleaseWith
<1>4. UNCHANGED <<comment, proc, mail, route>> /\ settle' \subseteq settle
  BY <1>1 DEF ReleaseWith, ReleaseIssue
<1>5. Typed'
  BY <1>3, <1>4 DEF IInv, Typed
<1>6. QED
  BY <1>3, <1>4, <1>5, Assemble DEF Busy

\* The pass over stranded queues performs one more release of the newest run.
LEMMA ResumeStrandedStep ==
  ASSUME IInv, NEW r \in Rows, ResumeStranded(r)
  PROVE  IInv'
<1>1. PICK fact \in [Agents -> Facts] : ReleaseIssue(r, TRUE, TRUE, fact)
  BY DEF ResumeStranded
<1>2. Sound(run, wake)' /\ Steady({}) /\ issue' \in IssueRows
  BY <1>1, ReleaseIssueStep DEF ResumeStranded
<1>3. UNCHANGED <<comment, proc, settle, mail, route>>
  BY <1>1 DEF ResumeStranded, ReleaseIssue
<1>4. Typed'
  BY <1>2, <1>3 DEF IInv, Typed
<1>5. QED
  BY <1>2, <1>3, <1>4, Assemble DEF Busy

------------------------------------------------------------------------------
(* Operators and requests.                                                    *)

\* A stop ends a run that nobody is about to start.
LEMMA CancelStep ==
  ASSUME IInv, NEW r \in Rows, Cancel(r)
  PROVE  /\ Sound(run, wake)' /\ Steady({r}) /\ Ended(r)' /\ ~Busy(r)
         /\ settle' \subseteq settle \cup {<<r, "ended">>} /\ settle' \subseteq Rows \X Settlement
<1>1. Active(r) /\ wake' = [wake EXCEPT ![run[r].wake].st = "cancelled"]
  BY WakeSetWritten DEF Cancel
<1>2. run' = [run EXCEPT ![r].st = "cancelled", ![r].stopped = TRUE]
  BY DEF Cancel
<1>3. Sound(run, wake)' /\ Steady({r}) /\ Ended(r)'
  BY <1>1, <1>2, EndStep
<1>4. ~Busy(r)
  BY DEF Cancel, IInv, Driven, Busy, Active, Waiting
<1>5. settle' \subseteq settle \cup {<<r, "ended">>} /\ settle' \subseteq Rows \X Settlement
  BY DEF Cancel, IInv, Typed, Settlement
<1>6. QED
  BY <1>3, <1>4, <1>5

LEMMA StopStep ==
  ASSUME IInv, NEW r \in Rows, Stop(r)
  PROVE  IInv'
<1>1. /\ Sound(run, wake)' /\ Steady({r}) /\ Ended(r)' /\ ~Busy(r)
      /\ settle' \subseteq settle \cup {<<r, "ended">>} /\ settle' \subseteq Rows \X Settlement
  BY CancelStep DEF Stop
<1>2. Typed'
  BY <1>1 DEF Stop, IInv, Typed
<1>3. QED
  BY <1>1, <1>2, SettledStep DEF Stop, Settlement

LEMMA ReassignStopStep ==
  ASSUME IInv, NEW a \in Agents, ReassignStop(a)
  PROVE  IInv'
<1>1. ToInterrupt \subseteq Rows /\ UNCHANGED <<issue, comment, proc, mail>>
  BY DEF ToInterrupt, RunningRuns, ReassignStop
<1>2. CASE route' = [phase |-> "stopped", to |-> a, run |-> None] /\ UNCHANGED <<run, wake, settle>>
  BY <1>1, <1>2, PlainStep DEF IInv, Typed
<1>3. ASSUME NEW r \in ToInterrupt, Cancel(r),
             route' = [phase |-> "stopped", to |-> a, run |-> r]
      PROVE  IInv'
  <2>1. r \in Rows
    BY <1>1
  <2>2. /\ Sound(run, wake)' /\ Steady({r}) /\ Ended(r)' /\ ~Busy(r)
        /\ settle' \subseteq settle \cup {<<r, "ended">>} /\ settle' \subseteq Rows \X Settlement
    BY <1>3, <2>1, CancelStep
  <2>3. Typed'
    BY <1>1, <1>3, <2>1, <2>2 DEF IInv, Typed
  <2>4. QED
    BY <1>1, <2>1, <2>2, <2>3, SettledStep DEF Settlement
<1>4. QED
  BY <1>2, <1>3 DEF ReassignStop

LEMMA ReassignCommitStep ==
  ASSUME IInv, ReassignCommit
  PROVE  IInv'
<1>1. Typed'
  BY DEF ReassignCommit, IInv, Typed, IssueRows
<1>2. QED
  BY <1>1, PlainStep DEF ReassignCommit

\* A request enqueues a wake.
LEMMA WakeStep ==
  ASSUME IInv, NEW kind \in Kinds, NEW a \in Agents, NEW cs \in SUBSET Comments, NEW from,
         Enqueue(kind, a, cs, from), mail' \subseteq mail,
         route' \in [phase : {"idle", "stopped", "assigned"}, to : Agents, run : Rows \cup {None}]
  PROVE  IInv'
<1>1. Sound(run, wake)' /\ Steady({}) /\ issue' \in IssueRows
  BY EnqueueStep
<1>2. UNCHANGED <<comment, proc, settle>>
  BY DEF Enqueue
<1>3. Typed'
  BY <1>1, <1>2 DEF IInv, Typed
<1>4. QED
  BY <1>1, <1>2, <1>3, Assemble DEF Busy

LEMMA ReassignWakeStep ==
  ASSUME IInv, ReassignWake
  PROVE  IInv'
<1>1. route.to \in Agents /\ {} \in SUBSET Comments /\ "system" \in Kinds
  BY DEF IInv, Typed, Kinds
<1>2. route' \in [phase : {"idle", "stopped", "assigned"}, to : Agents, run : Rows \cup {None}]
  BY DEF ReassignWake, IInv, Typed
<1>3. QED
  BY <1>1, <1>2, WakeStep DEF ReassignWake

LEMMA CommentWakeStep ==
  ASSUME IInv, NEW c \in Comments, NEW a \in Agents, CommentWake(c, a)
  PROVE  IInv'
<1>1. {c} \in SUBSET Comments /\ "comment" \in Kinds /\ mail' \subseteq mail /\ route' = route
  BY DEF CommentWake, Kinds
<1>2. QED
  BY <1>1, WakeStep DEF CommentWake, IInv, Typed

LEMMA SystemWakeStep ==
  ASSUME IInv, SystemWake
  PROVE  IInv'
<1>1. issue.assignee \in Agents /\ {} \in SUBSET Comments /\ "system" \in Kinds
  BY DEF IInv, Typed, IssueRows, Kinds
<1>2. mail' \subseteq mail /\ route' = route
  BY DEF SystemWake
<1>3. QED
  BY <1>1, <1>2, WakeStep DEF SystemWake, IInv, Typed

LEMMA PostCommentStep ==
  ASSUME IInv, NEW c \in Comments, PostComment(c)
  PROVE  IInv'
<1>1. issue' \in IssueRows
  BY DEF PostComment, IInv, Typed, IssueRows, Status
<1>2. /\ comment' \in [Comments -> {"none", "live", "deleted"}]
      /\ mail' \subseteq Comments \X Agents
  BY DEF PostComment, IInv, Typed, IssueRows
<1>3. Typed'
  BY <1>1, <1>2 DEF PostComment, IInv, Typed
<1>4. QED
  BY <1>3, PlainStep DEF PostComment

LEMMA SetStatusStep ==
  ASSUME IInv, NEW s \in Status, SetStatus(s)
  PROVE  IInv'
<1>1. Typed'
  BY DEF SetStatus, process, IInv, Typed, IssueRows
<1>2. QED
  BY <1>1, PlainStep DEF SetStatus, process

\* A message leaves the queue: the last one takes its wake, and its queued run, with it.
LEMMA DiscardStep ==
  ASSUME IInv, NEW c \in Comments, NEW w \in QueueOf(c), DiscardFrom(w, c)
  PROVE  Sound(run, wake)' /\ Steady({}) /\ issue' \in IssueRows
<1> DEFINE ids == wake[w].env \ {c}
           r   == wake[w].run
<1>1. /\ Sound(run, wake) /\ run \in RunRows /\ wake \in WakeRows /\ w \in Rows
      /\ wake[w] \in WakeRecord /\ ids \in SUBSET Comments /\ r \in Rows \cup {None}
  BY DEF IInv, Sound, QueueOf, WakeRows, WakeRecord
<1>2. /\ wake' = [wake EXCEPT ![w].env = ids, ![w].st = IF ids = {} THEN "cancelled" ELSE @]
      /\ run' = IF r = None THEN run
                ELSE [run EXCEPT ![r].ctx = IF ids = {} THEN @ ELSE ids,
                                 ![r].st = IF ids = {} THEN "cancelled" ELSE @]
      /\ issue' = IF r # None /\ ids = {} THEN Unlocked(r) ELSE issue
  BY DEF DiscardFrom
<1>3. Pending(w)
  BY DEF QueueOf
<1>4. wake[w].st = "deferred" => r = None
  BY <1>1 DEF Sound, OwnRun
<1>5. r # None => wake[w].st = "queued" /\ run[r].st = "queued" /\ run[r].wake = w
  BY <1>1, <1>3, <1>4 DEF Pending, Sound, OwnRun
<1> HIDE DEF ids, r
<1>6. wake' \in WakeRows
  <2>1. [wake[w] EXCEPT !.env = ids, !.st = IF ids = {} THEN "cancelled" ELSE @] \in WakeRecord
    BY <1>1 DEF WakeRecord, WakeStatus
  <2>2. wake' = [wake EXCEPT ![w] =
                   [wake[w] EXCEPT !.env = ids, !.st = IF ids = {} THEN "cancelled" ELSE @]]
    BY <1>1, <1>2 DEF WakeRows
  <2>3. QED
    BY <1>1, <2>1, <2>2 DEF WakeRows
<1>7. /\ \A v \in Rows \ {w} : wake'[v] = wake[v]
      /\ wake'[w].run = wake[w].run /\ wake'[w].env = ids /\ ids \subseteq wake[w].env
      /\ wake'[w].st = IF ids = {} THEN "cancelled" ELSE wake[w].st
  BY <1>1, <1>2 DEF WakeRows, WakeRecord, ids
<1>8. issue' \in IssueRows
  BY <1>2 DEF Unlocked, IInv, Typed, IssueRows
<1>9. CASE r = None
  <2>1. run' = run /\ wake[w].st = "deferred"
    BY <1>2, <1>3, <1>9 DEF Pending, r
  <2>2. Sound(run, wake')
    BY <1>1, <1>6, <1>7, <1>9, <2>1, SoundSaved DEF r
  <2>3. QED
    BY <1>8, <2>1, <2>2 DEF Steady, Ended
<1>10. CASE r # None
  <2>1. r \in Rows /\ run[r] \in RunRecord
    BY <1>1, <1>10 DEF RunRows
  <2>2. run' = [run EXCEPT ![r] = [run[r] EXCEPT !.ctx = IF ids = {} THEN @ ELSE ids,
                                                 !.st = IF ids = {} THEN "cancelled" ELSE @]]
    BY <1>1, <1>2, <1>10, <2>1 DEF RunRows
  <2>3. [run[r] EXCEPT !.ctx = IF ids = {} THEN @ ELSE ids,
                       !.st = IF ids = {} THEN "cancelled" ELSE @] \in RunRecord
    BY <1>1, <2>1 DEF RunRecord, RunStatus
  <2>4. run' \in RunRows
    BY <1>1, <2>2, <2>3 DEF RunRows
  <2>5. /\ \A q \in Rows \ {r} : run'[q] = run[q]
        /\ run'[r].wake = run[r].wake /\ run'[r].of = run[r].of
        /\ run'[r].ctx = (IF ids = {} THEN run[r].ctx ELSE ids)
        /\ run'[r].st = (IF ids = {} THEN "cancelled" ELSE run[r].st)
    BY <1>1, <2>1, <2>2 DEF RunRows, RunRecord
  <2>6. CASE ids = {}
    <3>1. RunsEnd({r}, run, run') /\ WakesEnd({r}, run, wake, wake')
      BY <1>5, <1>7, <1>10, <2>1, <2>5, <2>6 DEF RunsEnd, WakesEnd, Waits, Over
    <3>2. Sound(run', wake')
      BY <1>1, <1>6, <2>1, <2>4, <3>1, SoundEnd
    <3>3. Steady({})
      BY <1>5, <1>10, <2>5, <2>6 DEF Steady, Ended
    <3>4. QED
      BY <1>8, <3>2, <3>3
  <2>7. CASE ids # {}
    <3>1. Sound(run, wake)' /\ Steady({r})
      BY <1>5, <1>6, <1>7, <1>10, <2>1, <2>4, <2>5, <2>7, MoveStep DEF Active, Waiting
    <3>2. Steady({})
      BY <1>5, <1>10, <3>1 DEF Steady
    <3>3. QED
      BY <1>8, <3>1, <3>2
  <2>8. QED
    BY <2>6, <2>7
<1>11. QED
  BY <1>9, <1>10

LEMMA DeleteCommentStep ==
  ASSUME IInv, NEW c \in Comments, DeleteComment(c)
  PROVE  IInv'
<1>1. UNCHANGED process /\ comment' = [comment EXCEPT ![c] = "deleted"]
  BY DEF DeleteComment
<1>2. Sound(run, wake)' /\ Steady({}) /\ issue' \in IssueRows
  <2>1. CASE UNCHANGED <<issue, run, wake>>
    BY <2>1, TablesKept DEF IInv, Typed
  <2>2. CASE \E w \in QueueOf(c) : DiscardFrom(w, c)
    BY <2>2, DiscardStep
  <2>3. QED
    BY <2>1, <2>2 DEF DeleteComment
<1>3. Typed'
  BY <1>1, <1>2 DEF process, IInv, Typed
<1>4. QED
  BY <1>1, <1>2, <1>3, Assemble DEF process, Busy

------------------------------------------------------------------------------
(* Recovery.                                                                  *)

LEMMA RestartStep ==
  ASSUME IInv, Restart
  PROVE  IInv'
<1>1. Sound(run, wake)' /\ Steady({})
  BY TablesKept DEF Restart
<1>2. Typed' /\ \A q \in Rows : ~Busy(q)'
  BY DEF Restart, IInv, Typed, Phases, Busy
<1>3. settle' = {}
  BY DEF Restart
<1>4. QED
  BY <1>1, <1>2, <1>3, Assemble

LEMMA ReapStep ==
  ASSUME IInv, NEW r \in Rows, Reap(r)
  PROVE  IInv'
<1>1. /\ Active(r) /\ ~Busy(r) /\ run \in RunRows /\ run[r] \in RunRecord
      /\ settle' \subseteq settle \cup {<<r, "lost">>} /\ "lost" \in Settlement
  BY DEF Reap, Active, Busy, IInv, Sound, RunRows, Settlement
<1>2. wake' = [wake EXCEPT ![run[r].wake].st = "failed"]
  BY <1>1, WakeSetWritten DEF Reap
<1>3. run' = [run EXCEPT ![r].st = "failed", ![r].stopped = run[r].stopped]
  BY <1>1 DEF Reap, RunRows, RunRecord
<1>4. Sound(run, wake)' /\ Steady({r}) /\ Ended(r)'
  BY <1>1, <1>2, <1>3, EndStep DEF RunRecord
<1>5. Typed'
  BY DEF Reap, IInv, Typed, Settlement
<1>6. QED
  BY <1>1, <1>4, <1>5, SettledStep DEF Reap

LEMMA ScheduleRetryStep ==
  ASSUME IInv, NEW r \in Rows, ScheduleRetry(r)
  PROVE  IInv'
<1>1. Ended(r)
  BY DEF ScheduleRetry, IInv, Driven, Settlement
<1>2. Sound(run, wake)' /\ Steady({}) /\ issue' \in IssueRows
  <2>1. CASE UNCHANGED <<issue, run, wake>>
    BY <2>1, TablesKept DEF IInv, Typed
  <2>2. CASE RetryOf(r)
    BY <1>1, <2>2, RetryOfStep
  <2>3. QED
    BY <2>1, <2>2 DEF ScheduleRetry
<1>3. /\ UNCHANGED <<comment, proc, mail, route>>
      /\ settle' \subseteq settle \cup {<<r, "ended">>} /\ settle' \subseteq Rows \X Settlement
  BY DEF ScheduleRetry, IInv, Typed, Settlement
<1>4. Typed'
  BY <1>2, <1>3 DEF IInv, Typed
<1>5. Ended(r)'
  BY <1>1, <1>2 DEF Steady
<1>6. \A q \in Rows : \A h \in Settlement :
        <<q, h>> \in settle' => <<q, h>> \in settle \/ Ended(q)'
  <2> TAKE q \in Rows
  <2> TAKE h \in Settlement
  <2>1. CASE <<q, h>> = <<r, "ended">>
    <3>1. q = r
      BY <2>1
    <3>2. QED
      BY <1>5, <3>1
  <2>2. CASE <<q, h>> # <<r, "ended">>
    BY <1>3, <2>2
  <2>3. QED
    BY <2>1, <2>2
<1>7. QED
  BY <1>2, <1>3, <1>4, <1>6, Assemble DEF Busy

LEMMA PromoteRetryStep ==
  ASSUME IInv, NEW r \in Rows, PromoteRetry(r)
  PROVE  IInv'
<1>1. UNCHANGED <<comment, proc, settle, mail, route>> /\ run[r].st = "scheduled"
  BY DEF PromoteRetry, process
<1>2. Sound(run, wake)' /\ Steady({}) /\ issue' \in IssueRows
  <2>1. CASE CancelRows(r, "cancelled")
    BY <1>1, <2>1, CancelRowsStep DEF Waiting
  <2>2. CASE run' = [run EXCEPT ![r].st = "queued"] /\ UNCHANGED <<issue, wake>>
    <3>1. run \in RunRows /\ wake \in WakeRows /\ run[r] \in RunRecord /\ run[r].wake \in Rows
      BY DEF IInv, Sound, RunRows, RunRecord
    <3>2. /\ wake[run[r].wake].st = "queued" /\ wake[run[r].wake].env \subseteq run[r].ctx
          /\ Active(r)
      BY <1>1, <3>1 DEF IInv, Sound, OwnWake, Enclosed, Waits, Active, Waiting
    <3>3. /\ run' \in RunRows /\ run'[r].st = "queued" /\ run'[r].wake = run[r].wake
          /\ run'[r].of = run[r].of /\ run'[r].ctx = run[r].ctx
          /\ \A q \in Rows \ {r} : run'[q] = run[q]
      BY <2>2, <3>1 DEF RunRows, RunRecord, RunStatus
    <3>4. Sound(run, wake)' /\ Steady({r})
      BY <2>2, <3>1, <3>2, <3>3, MoveStep
    <3>5. Steady({})
      BY <1>1, <3>4 DEF Steady
    <3>6. QED
      BY <2>2, <3>4, <3>5 DEF IInv, Typed
  <2>3. QED
    BY <2>1, <2>2 DEF PromoteRetry
<1>3. Typed'
  BY <1>1, <1>2 DEF IInv, Typed
<1>4. QED
  BY <1>1, <1>2, <1>3, Assemble DEF Busy

LEMMA SweepStaleLockStep ==
  ASSUME IInv, SweepStaleLock
  PROVE  IInv'
<1>1. Typed'
  BY DEF SweepStaleLock, process, IInv, Typed, IssueRows
<1>2. QED
  BY <1>1, PlainStep DEF SweepStaleLock, process

------------------------------------------------------------------------------
(* The specification.                                                         *)

LEMMA InitInv == Init => IInv
<1> SUFFICES ASSUME Init PROVE IInv
  OBVIOUS
<1>1. PICK a \in Agents :
    /\ issue = [assignee |-> a, status |-> "todo", exec |-> None]
    /\ comment = [c \in Comments |-> "none"]
    /\ run = [r \in Rows |-> [st |-> "none", agent |-> a, wake |-> r, kind |-> "system",
                              ctx |-> {}, retry |-> "no", of |-> None,
                              started |-> FALSE, stopped |-> FALSE]]
    /\ wake = [w \in Rows |-> [st |-> "none", agent |-> a, kind |-> "system",
                               msg |-> {}, env |-> {}, run |-> None]]
    /\ proc = [r \in Rows |-> "idle"]
    /\ settle = {}
    /\ mail = {}
    /\ route = [phase |-> "idle", to |-> a, run |-> None]
  BY DEF Init
<1>2. Typed
  BY <1>1 DEF Typed, IssueRows, Status, Phases
<1>3. run \in RunRows
  BY <1>1 DEF RunRows, RunRecord, RunStatus, Kinds
<1>4. wake \in WakeRows
  BY <1>1 DEF WakeRows, WakeRecord, WakeStatus, Kinds
<1>5. /\ \A r \in Rows : run[r].st = "none" /\ run[r].of = None /\ run[r].ctx = {}
      /\ \A w \in Rows : wake[w].st = "none" /\ wake[w].run = None
                         /\ wake[w].env = {} /\ wake[w].msg = {}
  BY <1>1
<1>6. OwnWake(run, wake) /\ OwnRun(run, wake) /\ Enclosed(run, wake) /\ Chained(run)
  BY <1>5 DEF OwnWake, OwnRun, Enclosed, Chained
<1>7. Driven
  BY <1>1 DEF Driven
<1>8. QED
  BY <1>2, <1>3, <1>4, <1>6, <1>7 DEF IInv, Sound

LEMMA StutterStep ==
  ASSUME IInv, UNCHANGED vars
  PROVE  IInv'
<1>1. Typed'
  BY DEF vars, process, IInv, Typed
<1>2. QED
  BY <1>1, PlainStep DEF vars, process

LEMMA NextInv ==
  ASSUME IInv, Next
  PROVE  IInv'
<1>1. CASE Arrive
  BY <1>1, PostCommentStep, CommentWakeStep, SystemWakeStep DEF Arrive
<1>2. CASE Operate
  BY <1>2, StopStep, ReassignStopStep, SetStatusStep, DeleteCommentStep DEF Operate
<1>3. CASE ReassignCommit
  BY <1>3, ReassignCommitStep
<1>4. CASE ReassignWake
  BY <1>4, ReassignWakeStep
<1>5. CASE Restart
  BY <1>5, RestartStep
<1>6. CASE Recovery
  BY <1>6, ReapStep, ScheduleRetryStep, PromoteRetryStep, ResumeStrandedStep,
     SweepStaleLockStep DEF Recovery
<1>7. ASSUME NEW r \in Rows, Execute(r)
      PROVE  IInv'
  BY <1>7, GateStep, ClaimStep, StampClaimStep, ReleaseClaimStep, BeginStep, CheckoutStep,
     FinishStep, CleanupStep DEF Execute
<1>8. ASSUME NEW r \in Rows, NEW how \in Settlement, Release(r, how)
      PROVE  IInv'
  BY <1>8, ReleaseStep
<1>9. QED
  BY <1>1, <1>2, <1>3, <1>4, <1>5, <1>6, <1>7, <1>8 DEF Next

\* IInv is inductive.
THEOREM Inductive == Spec => []IInv
<1>1. IInv /\ [Next]_vars => IInv'
  BY NextInv, StutterStep
<1>2. QED
  BY InitInv, <1>1, PTL DEF Spec

\* Every variable keeps its type.
THEOREM TypeCorrect == Spec => []TypeOK
BY Inductive, TypeOf, PTL

\* A run that waits can be claimed: its own wake is still queued and points back at
\* it, through adoption, promotion, a claim taken back, retries and queue edits.
THEOREM WaitingRunsClaimable == Spec => []QueuedRunClaimable
<1>1. IInv => QueuedRunClaimable
  BY DEF IInv, Sound, OwnWake, QueuedRunClaimable, Waiting, Waits
<1>2. QED
  BY Inductive, <1>1, PTL

\* What the queue shows as delivered is what the run was given.
THEOREM EnvelopesGiven == Spec => []EnvelopeInContext
<1>1. IInv => EnvelopeInContext
  BY DEF IInv, Sound, Enclosed, EnvelopeInContext
<1>2. QED
  BY Inductive, <1>1, PTL

------------------------------------------------------------------------------
(* Runs that ended stay as they are.                                          *)

EndedStay == \A r \in Rows : Ended(r) => Ended(r)' /\ run'[r] = run[r]

LEMMA TypedRuns ==
  ASSUME IInv
  PROVE  run \in RunRows /\ \A q \in Rows : run[q] \in RunRecord
BY DEF IInv, Sound, RunRows

\* A step that writes only a run which has not ended.
LEMMA OpenRunWritten ==
  ASSUME NEW r \in Rows, ~Ended(r), \A q \in Rows \ {r} : run'[q] = run[q]
  PROVE  EndedStay
BY DEF EndedStay, Ended

LEMMA ExecuteStay ==
  ASSUME IInv, NEW r \in Rows, Execute(r)
  PROVE  EndedStay
<1> USE TypedRuns
<1>1. CASE UNCHANGED run
  BY <1>1 DEF EndedStay, Ended
<1>2. CASE run[r].st \in {"queued", "running"} /\ \A q \in Rows \ {r} : run'[q] = run[q]
  BY <1>2, OpenRunWritten DEF Ended
<1>3. CASE Gate(r) \/ Claim(r)
  BY <1>1, <1>2, <1>3 DEF Gate, Claim, Claimable, CancelRows, TakeRun, RunRows
<1>4. CASE ReleaseClaim(r) \/ \E x \in {"succeeded", "failed"} : Finish(r, x)
  BY <1>2, <1>4 DEF ReleaseClaim, Finish, RunRows
<1> QED
  BY <1>1, <1>3, <1>4 DEF Execute, StampClaim, Begin, Checkout, Cleanup, process

LEMMA OperateStay ==
  ASSUME IInv, Operate
  PROVE  EndedStay
<1>1. CASE UNCHANGED run
  BY <1>1 DEF EndedStay, Ended
<1>2. ASSUME NEW r \in Rows, Cancel(r)
      PROVE  EndedStay
  BY <1>2, CancelStep DEF Steady, EndedStay
<1>3. ASSUME NEW a \in Agents, ReassignStop(a)
      PROVE  EndedStay
  BY <1>1, <1>2, <1>3 DEF ReassignStop, ToInterrupt, RunningRuns
<1>4. ASSUME NEW c \in Comments, DeleteComment(c)
      PROVE  EndedStay
  BY <1>1, <1>4, DiscardStep DEF DeleteComment, Steady, EndedStay
<1> QED
  BY <1>1, <1>2, <1>3, <1>4 DEF Operate, Stop, SetStatus

LEMMA RecoveryStay ==
  ASSUME IInv, Recovery
  PROVE  EndedStay
<1>1. CASE UNCHANGED run
  BY <1>1 DEF EndedStay, Ended
<1>2. ASSUME NEW r \in Rows, Reap(r) \/ PromoteRetry(r)
      PROVE  EndedStay
  BY <1>2, OpenRunWritten, TypedRuns DEF Reap, PromoteRetry, CancelRows, Ended, RunRows
<1>3. ASSUME NEW r \in Rows, ScheduleRetry(r)
      PROVE  EndedStay
  <2>1. Ended(r)
    BY <1>3 DEF ScheduleRetry, IInv, Driven, Settlement
  <2> QED
    BY <1>1, <1>3, <2>1, RetryOfStep DEF ScheduleRetry, Steady, EndedStay
<1>4. ASSUME NEW r \in Rows, ResumeStranded(r)
      PROVE  EndedStay
  BY <1>4, ReleaseIssueStep DEF ResumeStranded, Steady, EndedStay
<1> QED
  BY <1>1, <1>2, <1>3, <1>4 DEF Recovery, SweepStaleLock

\* No action takes a run back that ended.
LEMMA NextStay ==
  ASSUME IInv, Next
  PROVE  EndedStay
<1>1. CASE UNCHANGED run
  BY <1>1 DEF EndedStay, Ended
<1>2. ASSUME NEW kind \in Kinds, NEW a \in Agents, NEW cs \in SUBSET Comments, NEW from,
             Enqueue(kind, a, cs, from)
      PROVE  EndedStay
  BY <1>2, EnqueueStep DEF Steady, EndedStay
<1>3. issue.assignee \in Agents /\ route.to \in Agents /\ {} \in SUBSET Comments
  BY DEF IInv, Typed, IssueRows
<1>4. CASE Arrive
  BY <1>1, <1>2, <1>3, <1>4 DEF Arrive, PostComment, CommentWake, SystemWake, Kinds
<1>5. CASE ReassignCommit \/ ReassignWake \/ Restart
  BY <1>1, <1>2, <1>3, <1>5 DEF ReassignCommit, ReassignWake, Restart, Kinds
<1>6. ASSUME NEW r \in Rows, NEW how \in Settlement, Release(r, how)
      PROVE  EndedStay
  <2>1. Ended(r)
    BY <1>6 DEF Release, ReleaseWith, IInv, Driven
  <2> QED
    BY <1>6, <2>1, ReleaseIssueStep DEF Release, ReleaseWith, Steady, EndedStay
<1> QED
  BY <1>4, <1>5, <1>6, OperateStay, RecoveryStay, ExecuteStay DEF Next

\* A run that ended is never written again, by no handler of the issue: a late answer of
\* its adapter, a late Stop, a claim or a queue edit changes neither how it ended nor what
\* it was given.
THEOREM OutcomesStand == Spec => OutcomeStands
<1>1. IInv /\ [Next]_vars => [\A r \in Rows : Ended(r) => run'[r] = run[r]]_vars
  BY NextStay DEF EndedStay
<1>2. QED
  BY Inductive, <1>1, PTL DEF Spec, OutcomeStands

================================================================================
