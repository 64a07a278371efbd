----------------------------- MODULE RunControls -----------------------------
(***************************************************************************)
(* Control of a run by its overrides.toml: the control service that         *)
(* compares and swaps it (aflow/control_plane/services.py, persistence.py), *)
(* people who edit it by hand, the controller that consumes it at the       *)
(* boundary before each turn (aflow/workflow.py), and the resume that       *)
(* carries its decisions over to a successor (aflow/run_state.py).          *)
(*                                                                         *)
(* The file is never deleted by its reader: a request counts as consumed    *)
(* when the digest of the file is the one in run.json.  Of a digest only    *)
(* equality matters, so the text itself stands for it.                      *)
(*                                                                         *)
(* Left out: malformed files, role selectors and their hotplug, next_step   *)
(* and notes, budgets replaced on resume.  A choice stands for team and     *)
(* turn limit, which persist alike.                                         *)
(***************************************************************************)
EXTENDS Naturals

CONSTANTS
  Keys,       \* idempotency keys of control requests
  Handlers,   \* calls of the control service that may be under way
  Choices,    \* persistent choices: teams
  None,       \* no choice
  Drafts,     \* bound: what people write into the file
  MaxRuns,    \* bound: generations of the run
  MaxEdits,   \* bound: edits by hand
  MaxFaults   \* bound: deaths of the controller or of a handler

\* owner_stop as a file has it or a request sets it, which may leave it alone.
OwnerStop == {"true", "false", "absent"}

ASSUME ControlAssumption ==
  /\ None \notin Choices
  /\ Drafts \subseteq [stop : OwnerStop, choice : Choices \cup {None}, fits : BOOLEAN]
  /\ MaxRuns \in Nat \ {0} /\ MaxEdits \in Nat /\ MaxFaults \in Nat

Run == 1..MaxRuns

\* The contents of overrides.toml; `fits' when its targets suit the configuration.
Text == [revision : Nat, stop : OwnerStop, choice : Choices \cup {None}, fits : BOOLEAN]
Blank == [revision |-> 0, stop |-> "absent", choice |-> None, fits |-> TRUE]

\* A file, and which write it is from: 0 when there is none.
File == [text : Text, write : Nat]
NoFile == [text |-> Blank, write |-> 0]
Present(f) == f.write > 0
Stops(f) == f.text.stop = "true"

\* state.override_result, last_accepted_override, override_source_run_dir and turns_completed > 0.
Result == [status : {"none", "accepted", "rejected"}, file : File, applied : BOOLEAN]
NoResult == [status |-> "none", file |-> NoFile, applied |-> FALSE]

Controller == [result : Result, accepted : BOOLEAN, choice : Choices \cup {None},
               source : Run \cup {0}, turned : BOOLEAN]
Fresh == [result |-> NoResult, accepted |-> FALSE, choice |-> None, source |-> 0,
          turned |-> FALSE]

Request == [run : Run, expected : Nat, stop : OwnerStop, choice : Choices \cup {None}]
NoRequest == [run |-> 0]

VARIABLES
  run,      \* the latest generation
  file,     \* overrides.toml of each run
  saved,    \* run.json of the latest run
  mem,      \* the state of its controller
  at,       \* where the controller is
  request,  \* what each key was used for
  logged,   \* keys with a control_request event in the run's journal
  call,     \* per handler: the key it serves, and how far it is
  edits, faults,
  writes,   \* auxiliary: writes of the file so far
  acted,    \* auxiliary: those that have taken effect
  twice,    \* auxiliary: one has taken effect again
  changes,  \* auxiliary: how often each key has changed a file
  granted,  \* auxiliary: the choice accepted last
  removed   \* auxiliary: a file was removed, and its revisions start again

controller == <<run, saved, mem, at>>
service == <<request, logged, call>>
effects == <<acted, twice>>
history == <<writes, effects, changes, granted, removed>>
vars == <<controller, file, service, edits, faults, history>>

Idle == [key |-> None, at |-> "idle"]

Init ==
  /\ run = 1
  /\ file = [g \in Run |-> NoFile]
  /\ saved = Fresh /\ mem = Fresh
  /\ at = "honor"
  /\ request = [k \in Keys |-> NoRequest]
  /\ logged = {}
  /\ call = [h \in Handlers |-> Idle]
  /\ edits = 0 /\ faults = 0
  /\ writes = 0 /\ acted = {} /\ twice = FALSE
  /\ changes = [k \in Keys |-> 0]
  /\ granted = None /\ removed = FALSE

-----------------------------------------------------------------------------
(* The control service *)

\* The revision must be the expected one.
Current(r) == r.expected = file[r.run].text.revision

\* ControlService.apply: a new request bears the revision its client has seen,
\* and one under a used key is the same one, answered from the journal if it
\* got there.  It is refused when the file has moved on or, unless it is a
\* stop, does not suit the configuration.
Apply(h, k) ==
  /\ call[h] = Idle /\ k \notin logged
  /\ \/ /\ request[k] = NoRequest
        /\ \E stop \in OwnerStop, choice \in Choices \cup {None} :
             /\ stop = "true" \/ file[run].text.fits
             /\ stop # "absent" \/ choice # None
             /\ request' = [request EXCEPT ![k] =
                  [run |-> run, expected |-> file[run].text.revision,
                   stop |-> stop, choice |-> choice]]
     \/ /\ request[k] # NoRequest /\ Current(request[k])
        /\ request[k].stop = "true" \/ file[request[k].run].text.fits
        /\ UNCHANGED request
  /\ call' = [call EXCEPT ![h] = [key |-> k, at |-> "swap"]]
  /\ UNCHANGED <<controller, file, logged, edits, faults, history>>

\* What a request makes of the file, a stop withdrawn included; everything else
\* in it stays.
Merged(text, r) ==
  [revision |-> text.revision, stop |-> IF r.stop # "absent" THEN r.stop ELSE text.stop,
   choice |-> IF r.choice # None THEN r.choice ELSE text.choice, fits |-> text.fits]

\* Faulty variant: the revision checked before is trusted.
SwapTrusting(h) ==
  LET k == call[h].key
      r == request[k]
      old == file[r.run].text
      new == Merged(old, r)
  IN
  /\ call[h].at = "swap"
  /\ call' = [call EXCEPT ![h] = [key |-> k, at |-> "log"]]
  /\ IF new # old
     THEN /\ file' = [file EXCEPT ![r.run] =
               [text |-> [new EXCEPT !.revision = old.revision + 1], write |-> writes + 1]]
          /\ changes' = [changes EXCEPT ![k] = @ + 1]
          /\ writes' = writes + 1
     ELSE UNCHANGED <<file, changes, writes>>
  /\ UNCHANGED <<controller, request, logged, edits, faults, effects, granted, removed>>

\* compare_and_swap_overrides, atomic under .overrides.lock,
\* where the revision is compared again.
Swap(h) ==
  LET k == call[h].key
      r == request[k]
      old == file[r.run].text
      new == Merged(old, r)
  IN
  /\ call[h].at = "swap"
  /\ IF Current(r)
     THEN call' = [call EXCEPT ![h] = [key |-> k, at |-> "log"]]
     ELSE call' = [call EXCEPT ![h] = Idle]
  /\ IF Current(r) /\ new # old
     THEN /\ file' = [file EXCEPT ![r.run] =
               [text |-> [new EXCEPT !.revision = old.revision + 1],
                write |-> writes + 1]]
          /\ changes' = [changes EXCEPT ![k] = @ + 1]
          /\ writes' = writes + 1
     ELSE UNCHANGED <<file, changes, writes>>
  /\ UNCHANGED <<controller, request, logged, edits, faults, effects, granted, removed>>

\* The event that replays rest on comes after the write.
Log(h) ==
  /\ call[h].at = "log"
  /\ logged' = logged \cup {call[h].key}
  /\ call' = [call EXCEPT ![h] = Idle]
  /\ UNCHANGED <<controller, file, request, edits, faults, history>>

HandlerDies(h) ==
  /\ faults < MaxFaults /\ faults' = faults + 1
  /\ call[h] # Idle
  /\ call' = [call EXCEPT ![h] = Idle]
  /\ UNCHANGED <<controller, file, request, logged, edits, history>>

\* A person edits the file of the latest run, and leaves its revision, or
\* removes it.
Edit ==
  /\ edits < MaxEdits /\ edits' = edits + 1 /\ writes' = writes + 1
  /\ \/ /\ \E d \in Drafts :
             file' = [file EXCEPT ![run] =
               [text |-> [revision |-> file[run].text.revision, stop |-> d.stop,
                          choice |-> d.choice, fits |-> d.fits],
                write |-> writes + 1]]
        /\ UNCHANGED removed
     \/ /\ Present(file[run]) /\ removed' = TRUE
        /\ file' = [file EXCEPT ![run] = NoFile]
  /\ UNCHANGED <<controller, service, faults, effects, changes, granted>>

-----------------------------------------------------------------------------
(* The boundary before a turn *)

\* The run whose file is read: the predecessor's until its request is settled.
From == IF mem.source # 0 THEN mem.source ELSE run
Required == mem.source # 0 /\ mem.source # run
Read == file[From]

\* The file is the one that was accepted and applied.
Consumed(f) ==
  mem.result.status = "accepted" /\ mem.result.applied /\ f.text = mem.result.file.text

Act(w) == acted' = acted \cup {w} /\ twice' = (twice \/ w \in acted)

\* run.json is written with the controller's new state.
Save(new) == mem' = new /\ saved' = new

\* An owner stop is accepted as applied, alone among the file's contents.
Stop(f) ==
  /\ Save([mem EXCEPT !.result = [status |-> "accepted", file |-> f, applied |-> TRUE]])
  /\ Act(f.write)
  /\ at' = "stopping"

\* _honor_owner_stop_before_live_reload, also while the turn waits for a resource.
Honor ==
  /\ at = "honor" \/ (at = "launch" /\ Present(Read) /\ ~Consumed(Read) /\ Stops(Read))
  /\ IF Present(Read) /\ ~Consumed(Read) /\ Stops(Read)
     THEN Stop(Read)
     ELSE at' = "apply" /\ UNCHANGED <<saved, mem, effects>>
  /\ UNCHANGED <<run, file, service, edits, faults, writes, changes, granted, removed>>

\* Faulty variant: the end is recorded as what was asked for.
StoppedAsRequested ==
  /\ at = "stopping"
  /\ at' = "owner_stop_requested"
  /\ UNCHANGED <<run, saved, mem, file, service, edits, faults, history>>

\* _finish_owner_stop
Stopped ==
  /\ at = "stopping"
  /\ at' = "stopped"
  /\ UNCHANGED <<run, saved, mem, file, service, edits, faults, history>>

\* merge_accepted_override_choices; an owner stop has no choice of its own.
Merge(c, f) ==
  IF f.text.choice # None /\ ~Stops(f) THEN f.text.choice ELSE c.choice

\* Faulty variant: the predecessor's file stays the source.
AppliedFromSource(c) ==
  [result |-> [c.result EXCEPT !.applied = TRUE], accepted |-> TRUE,
   choice |-> Merge(c, c.result.file), source |-> c.source, turned |-> c.turned]

\* The choices of an accepted request are applied.
Applied(c) ==
  [result |-> [c.result EXCEPT !.applied = TRUE], accepted |-> TRUE,
   choice |-> Merge(c, c.result.file), source |-> 0, turned |-> c.turned]

Pending == mem.result.status = "accepted" /\ ~mem.result.applied

\* _apply_boundary_override: what was accepted before is applied first.
Take ==
  /\ at \in {"apply", "take"} /\ Pending
  /\ Save(Applied(mem))
  /\ Act(mem.result.file.write)
  /\ at' = "launch"
  /\ UNCHANGED <<run, file, service, edits, faults, writes, changes, granted, removed>>

\* A rejection is final for its text, while the run can go on without it.
GoesOn == ~Required /\ (mem.turned \/ mem.accepted)
RejectedBefore(f) ==
  GoesOn /\ mem.result.status = "rejected" /\ f.text = mem.result.file.text

\* There is nothing to do.
Pass ==
  /\ at = "apply" /\ ~Pending
  /\ \/ ~Present(Read) /\ ~Required
     \/ Present(Read) /\ (Consumed(Read) \/ RejectedBefore(Read))
  /\ at' = "launch"
  /\ UNCHANGED <<run, saved, mem, file, service, edits, faults, history>>

New(f) == Present(f) /\ ~Consumed(f) /\ ~RejectedBefore(f)

StopAtApply ==
  /\ at = "apply" /\ ~Pending
  /\ New(Read) /\ Stops(Read)
  /\ Stop(Read)
  /\ UNCHANGED <<run, file, service, edits, faults, writes, changes, granted, removed>>

\* It is ignored, or the run ends and waits for a valid one.
Reject ==
  /\ at = "apply" /\ ~Pending
  /\ IF Present(Read) THEN New(Read) /\ ~Stops(Read) /\ ~Read.text.fits ELSE Required
  /\ Save([result |-> [status |-> "rejected", applied |-> FALSE,
                       file |-> IF Present(Read) THEN Read ELSE mem.result.file],
           accepted |-> mem.accepted, choice |-> mem.choice, source |-> From,
           turned |-> mem.turned])
  /\ at' = IF GoesOn THEN "launch" ELSE "waiting"
  /\ UNCHANGED <<run, file, service, edits, faults, history>>

\* It is recorded as accepted before anything of it is applied.
Accept ==
  /\ at = "apply" /\ ~Pending
  /\ New(Read) /\ ~Stops(Read) /\ Read.text.fits
  /\ Save([mem EXCEPT !.result = [status |-> "accepted", file |-> Read, applied |-> FALSE]])
  /\ granted' = IF Read.text.choice # None THEN Read.text.choice ELSE granted
  /\ at' = "take"
  /\ UNCHANGED <<run, file, service, edits, faults, writes, effects, changes, removed>>

Launch ==
  /\ at = "launch"
  /\ at' = "turn"
  /\ Save(mem)
  /\ UNCHANGED <<run, file, service, edits, faults, history>>

\* The turn ends and the workflow goes on, or the run is over.
EndTurn ==
  /\ at = "turn"
  /\ at' \in {"honor", "done"}
  /\ Save([mem EXCEPT !.turned = TRUE])
  /\ UNCHANGED <<run, file, service, edits, faults, history>>

-----------------------------------------------------------------------------
(* Death and resume *)

Live == at \in {"honor", "apply", "take", "launch", "turn", "stopping"}

\* A death between the record of a stop and the end it announces leaves a
\* status that no resume accepts.
Crash ==
  /\ faults < MaxFaults /\ faults' = faults + 1
  /\ Live
  /\ at' = IF at = "stopping" THEN "stranded" ELSE "crashed"
  /\ UNCHANGED <<run, saved, mem, file, service, edits, history>>

\* resolve_resume_override: whose file owns the successor's first boundary.
SourceFor(result, f) ==
  IF result.status = "none" THEN IF Present(f) THEN run ELSE 0
  ELSE IF result.status = "rejected" \/ ~result.applied THEN run
  ELSE IF Present(f) /\ f.text # result.file.text THEN run ELSE 0

\* Faulty variant: the successor starts without its predecessor's result.
InheritsChoices(c) ==
  [c EXCEPT !.result = NoResult, !.source = SourceFor(NoResult, file[run]), !.turned = FALSE]

\* Faulty variant: a result is inherited when it was applied.
InheritsApplied(c) ==
  IF c.result.applied
  THEN [c EXCEPT !.source = SourceFor(c.result, file[run]), !.turned = FALSE]
  ELSE InheritsChoices(c)

\* The successor's state from its predecessor's run.json.
Inherited(c) ==
  LET accepted == c.result.status = "accepted"
  IN
  [result |-> c.result, accepted |-> c.accepted \/ accepted,
   choice |-> IF accepted THEN Merge(c, c.result.file) ELSE c.choice,
   source |-> SourceFor(c.result, file[run]), turned |-> FALSE]

Resume ==
  /\ at \in {"stopped", "waiting", "crashed"} /\ run < MaxRuns
  /\ run' = run + 1
  /\ Save(Inherited(saved))
  /\ at' = "honor"
  /\ UNCHANGED <<file, service, edits, faults, history>>

Control ==
  Honor \/ Stopped \/ Take \/ Pass \/ StopAtApply \/ Reject \/ Accept \/ Launch \/ EndTurn

Next ==
  \/ \E h \in Handlers : (\E k \in Keys : Apply(h, k)) \/ Swap(h) \/ Log(h) \/ HandlerDies(h)
  \/ Edit \/ Control \/ Crash \/ Resume

\* Fairness: a live controller goes on, and its providers answer.
Spec == Init /\ [][Next]_vars /\ WF_vars(Control)

-----------------------------------------------------------------------------
(* Properties *)

TypeOK ==
  /\ run \in Run
  /\ file \in [Run -> File]
  /\ saved \in Controller /\ mem \in Controller
  /\ at \in {"honor", "apply", "take", "launch", "turn", "stopping",
            "done", "stopped", "waiting", "crashed", "stranded"}
  /\ request \in [Keys -> Request \cup {NoRequest}]
  /\ logged \subseteq Keys
  /\ call \in [Handlers -> [key : Keys \cup {None}, at : {"idle", "swap", "log"}]]
  /\ edits \in 0..MaxEdits /\ faults \in 0..MaxFaults
  /\ writes \in Nat /\ acted \subseteq 1..writes /\ twice \in BOOLEAN /\ changes \in [Keys -> Nat]
  /\ granted \in Choices \cup {None} /\ removed \in BOOLEAN

\* What was written once takes effect at most once, across deaths between the
\* record of its acceptance and its application, rejections and resumes
\* (workflow.py:14948-15020, run_state.py:174-229).
AppliedOnce == ~twice

\* Every turn has the choice accepted last, whichever generation accepted it
\* and however far it got with it (run_state.py:149-171, workflow.py:14889).
AcceptedSurvives == at = "turn" => mem.choice = granted

\* A control request changes the file at most once, however often it is retried
\* and whichever handler dies before its event is written; above all it does
\* not undo a later request (services.py:65-110, persistence.py:526-575).  Only a
\* file removed by hand starts its revisions again.
ChangesOnce == ~removed => \A k \in Keys : changes[k] <= 1

Asked(g) == run = g /\ Live /\ Stops(file[g])
Answered(g) == run # g \/ ~Live \/ ~Stops(file[g])

\* A stop asked of the latest run ends it, whatever is written after it, unless
\* its text is the one the predecessor stopped for (workflow.py:11795-11834).
StopHeard ==
  \A g \in Run :
    Asked(g) /\ file[g].text # mem.result.file.text ~> Answered(g)

\* docs/remote-app.md:67: a stop is pending while the current turn finishes.
StopAfterTurn == \A g \in Run : Asked(g) ~> Answered(g)

=============================================================================
