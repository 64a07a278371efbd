-------------------------- MODULE RunControlsProofs --------------------------
(***************************************************************************)
(* Proofs about RunControls: whatever is written, retried, rejected or      *)
(* resumed, a write takes effect once, a request changes a file once, and   *)
(* every turn has the choice accepted last.                                 *)
(***************************************************************************)
EXTENDS RunControls, TLAPS

-----------------------------------------------------------------------------
(* The inductive invariant *)

\* A call under way serves a request that was made of a generation there is;
\* later generations have no file yet.
Reach ==
  /\ \A h \in Handlers : call[h].at # "idle" =>
       call[h].key \in Keys /\ request[call[h].key] # NoRequest
  /\ \A k \in Keys : request[k] # NoRequest => request[k].run <= run
  /\ mem.source <= run
  /\ \A g \in Run : g > run => file[g] = NoFile

\* run.json is what the controller knows.
Saved == saved = mem

\* A write is one file's, and a result is of a file as it was written.
Written ==
  /\ mem.result.file.write <= writes
  /\ \A g \in Run :
       /\ file[g].write <= writes
       /\ file[g].write > 0 /\ file[g].write = mem.result.file.write =>
            file[g] = mem.result.file
       /\ \A o \in Run : file[g].write > 0 /\ file[g].write = file[o].write => g = o

\* What is pending has not taken effect, and what has taken effect of the files
\* that are still to be read is known from the result: a predecessor's file is
\* read before anything of the run's own has taken effect.
Unacted ==
  /\ ~twice
  /\ Pending => mem.result.file.write > 0 /\ mem.result.file.write \notin acted
  /\ file[run].write \in acted => mem.source \in {0, run} /\ Consumed(file[run])
  /\ mem.source # 0 /\ file[mem.source].write \in acted => Consumed(file[mem.source])

\* The choice there is once the result has been applied.
Settled == IF mem.result.status = "accepted" THEN Merge(mem, mem.result.file) ELSE mem.choice

\* Only between the record of an acceptance and its application is the run
\* without its choice; a death there leaves that to the resume.
Chosen == Settled = granted /\ (at \notin {"take", "crashed"} => mem.choice = granted)

\* A file that a request has changed is past the revision it expects.
Spent(k) ==
  /\ changes[k] = 1 /\ request[k] # NoRequest
  /\ request[k].expected < file[request[k].run].text.revision

Changed == ~removed => \A k \in Keys : changes[k] = 0 \/ Spent(k)

Inv == TypeOK /\ Reach /\ Saved /\ Written /\ Unacted /\ Chosen /\ Changed

-----------------------------------------------------------------------------
(* Types *)

LEMMA ReadType ==
  ASSUME TypeOK
  PROVE  From \in Run /\ Read \in File /\ mem.result \in Result
BY DEF TypeOK, From, Read, Controller

LEMMA ParseFile ==
  ASSUME NEW f \in File
  PROVE  /\ f.text \in Text /\ f.write \in Nat
         /\ f.text.revision \in Nat /\ f.text.stop \in OwnerStop
         /\ f.text.choice \in Choices \cup {None} /\ f.text.fits \in BOOLEAN
BY DEF File, Text

LEMMA MergeType ==
  ASSUME NEW c \in Controller, NEW f \in File
  PROVE  Merge(c, f) \in Choices \cup {None}
BY ParseFile DEF Merge, Controller

LEMMA AppliedType ==
  ASSUME NEW c \in Controller
  PROVE  Applied(c) \in Controller
<1>1. c.result \in Result /\ c.result.file \in File
  BY DEF Controller, Result
<1>2. [c.result EXCEPT !.applied = TRUE] \in Result
  BY <1>1 DEF Result
<1>3. Merge(c, c.result.file) \in Choices \cup {None}
  BY <1>1, MergeType
<1> QED
  BY <1>2, <1>3 DEF Applied, Controller

LEMMA InheritedType ==
  ASSUME TypeOK, NEW c \in Controller
  PROVE  Inherited(c) \in Controller
<1>1. c.result \in Result /\ c.result.file \in File /\ c.accepted \in BOOLEAN
      /\ c.choice \in Choices \cup {None}
  BY DEF Controller, Result
<1>2. Merge(c, c.result.file) \in Choices \cup {None}
  BY <1>1, MergeType
<1>3. SourceFor(c.result, file[run]) \in Run \cup {0}
  BY DEF SourceFor, TypeOK
<1> QED
  BY <1>1, <1>2, <1>3 DEF Inherited, Controller

LEMMA InitType == Init => TypeOK
<1> SUFFICES ASSUME Init PROVE TypeOK
  OBVIOUS
<1>1. 1 \in Run /\ NoFile \in File
  BY ControlAssumption DEF Run, NoFile, File, Blank, Text, OwnerStop
<1>2. Fresh \in Controller
  BY <1>1 DEF Fresh, Controller, NoResult, Result
<1>3. file \in [Run -> File] /\ run \in Run /\ saved \in Controller /\ mem \in Controller
  BY <1>1, <1>2 DEF Init
<1>4. call \in [Handlers -> [key : Keys \cup {None}, at : {"idle", "swap", "log"}]]
  BY DEF Init, Idle
<1>5. request \in [Keys -> Request \cup {NoRequest}] /\ changes \in [Keys -> Nat]
  BY DEF Init
<1>6. edits \in 0..MaxEdits /\ faults \in 0..MaxFaults
  BY ControlAssumption DEF Init
<1> QED
  BY <1>3, <1>4, <1>5, <1>6 DEF Init, TypeOK

LEMMA RequestType ==
  ASSUME TypeOK, NEW k \in Keys, request[k] # NoRequest
  PROVE  /\ request[k] \in Request /\ request[k].run \in Run
         /\ request[k].expected \in Nat /\ request[k].stop \in OwnerStop
         /\ request[k].choice \in Choices \cup {None}
BY DEF TypeOK, Request

\* What a call of the service may do to the file.
SwapEffect(h) ==
  LET r == request[call[h].key]
      old == file[r.run]
  IN
  \/ UNCHANGED <<file, changes, writes>>
  \/ /\ r.expected = old.text.revision
     /\ \E text \in Text :
          /\ text.revision = old.text.revision + 1
          /\ file' = [file EXCEPT ![r.run] = [text |-> text, write |-> writes + 1]]
     /\ changes' = [changes EXCEPT ![call[h].key] = changes[call[h].key] + 1]
     /\ writes' = writes + 1

LEMMA SwapSteps ==
  ASSUME TypeOK, Reach, NEW h \in Handlers, Swap(h)
  PROVE  /\ SwapEffect(h)
         /\ call[h].key \in Keys /\ request[call[h].key] \in Request
         /\ request[call[h].key] # NoRequest
<1> DEFINE r == request[call[h].key]
           old == file[r.run].text
           new == Merged(old, r)
<1>1. call[h].key \in Keys /\ r # NoRequest
  BY DEF Swap, Reach
<1>2. r \in Request /\ r.run \in Run /\ r.stop \in OwnerStop /\ r.choice \in Choices \cup {None}
  BY <1>1, RequestType
<1>3. old \in Text /\ old.revision \in Nat /\ old.stop \in OwnerStop /\ old.fits \in BOOLEAN
      /\ old.choice \in Choices \cup {None}
  BY <1>2, ParseFile DEF TypeOK
<1>4. [new EXCEPT !.revision = old.revision + 1] \in Text
      /\ [new EXCEPT !.revision = old.revision + 1].revision = old.revision + 1
  <2>1. new \in Text
    BY <1>2, <1>3 DEF Merged, Text
  <2>2. old.revision + 1 \in Nat
    BY <1>3
  <2> HIDE DEF new, old
  <2> QED
    BY <2>1, <2>2 DEF Text
<1>5. SwapEffect(h)
  <2>1. CASE Current(r) /\ new # old
    BY <2>1, <1>4 DEF Swap, SwapEffect, Current
  <2>2. CASE ~(Current(r) /\ new # old)
    BY <2>2 DEF Swap, SwapEffect
  <2> QED
    BY <2>1, <2>2
<1> QED
  BY <1>1, <1>2, <1>5

\* What a step of the controller does, at a boundary or around it.
StopStep ==
  /\ at \in {"honor", "apply", "launch"}
  /\ Present(Read) /\ ~Consumed(Read) /\ Stops(Read)
  /\ Stop(Read)
  /\ UNCHANGED <<run, file, service, edits, faults, writes, changes, granted, removed>>

QuietStep ==
  /\ at \in {"honor", "stopping", "apply"}
  /\ at' \in {"apply", "stopped", "launch"}
  /\ UNCHANGED <<run, file, saved, mem, service, edits, faults, history>>

TurnStep ==
  /\ at \in {"launch", "turn"}
  /\ at' \in {"turn", "honor", "done"}
  /\ \E turned \in BOOLEAN : Save([mem EXCEPT !.turned = turned])
  /\ UNCHANGED <<run, file, service, edits, faults, history>>

LEMMA ControlSteps ==
  ASSUME TypeOK, Control
  PROVE  StopStep \/ QuietStep \/ TurnStep \/ Take \/ Reject \/ Accept
<1>1. CASE Honor
  BY <1>1 DEF Honor, StopStep, QuietStep, history
<1>2. CASE Stopped \/ Pass
  BY <1>2 DEF Stopped, Pass, QuietStep
<1>3. CASE StopAtApply
  BY <1>3 DEF StopAtApply, New, StopStep
<1>4. CASE Launch
  <2>1. mem.turned \in BOOLEAN /\ mem = [mem EXCEPT !.turned = mem.turned]
    BY DEF TypeOK, Controller
  <2> QED
    BY <1>4, <2>1 DEF Launch, TurnStep
<1>5. CASE EndTurn
  BY <1>5 DEF EndTurn, TurnStep
<1> QED
  BY <1>1, <1>2, <1>3, <1>4, <1>5 DEF Control

LEMMA EditType ==
  ASSUME TypeOK, Edit
  PROVE  file' \in [Run -> File]
<1> USE DEF TypeOK
<1>1. file[run].text.revision \in Nat /\ NoFile \in File
  BY ParseFile DEF NoFile, File, Text, OwnerStop, Blank
<1>2. ASSUME NEW d \in Drafts
      PROVE  [revision |-> file[run].text.revision, stop |-> d.stop,
              choice |-> d.choice, fits |-> d.fits] \in Text
  BY <1>1, ControlAssumption DEF Text, OwnerStop
<1>3. file' \in [Run -> File]
  <2>1. CASE file' = [file EXCEPT ![run] = NoFile]
    BY <2>1, <1>1
  <2>2. CASE \E d \in Drafts :
           file' = [file EXCEPT ![run] =
             [text |-> [revision |-> file[run].text.revision, stop |-> d.stop,
                        choice |-> d.choice, fits |-> d.fits],
              write |-> writes + 1]]
    BY <2>2, <1>2 DEF File
  <2> QED
    BY <2>1, <2>2 DEF Edit
<1> QED
  BY <1>3

LEMMA NextType ==
  ASSUME TypeOK, Reach, Written, Unacted, [Next]_vars
  PROVE  TypeOK'
<1> USE DEF TypeOK
<1>1. ASSUME NEW h \in Handlers, NEW k \in Keys, Apply(h, k) PROVE TypeOK'
  <2>1. request' \in [Keys -> Request \cup {NoRequest}]
    BY <1>1, ParseFile DEF Apply, Request, File, Text
  <2>2. call' \in [Handlers -> [key : Keys \cup {None}, at : {"idle", "swap", "log"}]]
    BY <1>1 DEF Apply
  <2> QED
    BY <1>1, <2>1, <2>2 DEF Apply, controller, history, effects
<1>2. ASSUME NEW h \in Handlers, Swap(h) PROVE TypeOK'
  <2> DEFINE k == call[h].key
  <2>1. SwapEffect(h) /\ k \in Keys /\ request[k] \in Request
    BY <1>2, SwapSteps
  <2>2. /\ file' \in [Run -> File] /\ changes' \in [Keys -> Nat]
        /\ writes' \in Nat /\ writes <= writes'
    <3>1. CASE UNCHANGED <<file, changes, writes>>
      BY <3>1
    <3>2. CASE ~UNCHANGED <<file, changes, writes>>
      <4>1. PICK text \in Text :
              file' = [file EXCEPT ![request[k].run] = [text |-> text, write |-> writes + 1]]
        BY <2>1, <3>2 DEF SwapEffect
      <4>2. changes' = [changes EXCEPT ![k] = changes[k] + 1] /\ writes' = writes + 1
        BY <2>1, <3>2 DEF SwapEffect
      <4> QED
        BY <2>1, <4>1, <4>2 DEF File, Request
    <3> QED
      BY <3>1, <3>2
  <2>3. call' \in [Handlers -> [key : Keys \cup {None}, at : {"idle", "swap", "log"}]]
    BY <1>2, <2>1 DEF Swap, Idle
  <2>4. acted' \subseteq 1..writes'
    BY <1>2, <2>2 DEF Swap, effects
  <2> QED
    BY <1>2, <2>2, <2>3, <2>4 DEF Swap, controller, effects
<1>3. ASSUME NEW h \in Handlers, Log(h) PROVE TypeOK'
  <2>1. call' \in [Handlers -> [key : Keys \cup {None}, at : {"idle", "swap", "log"}]]
    BY <1>3 DEF Log, Idle
  <2>2. logged' \subseteq Keys
    BY <1>3 DEF Log, Reach
  <2> QED
    BY <1>3, <2>1, <2>2 DEF Log, controller, history, effects
<1>4. ASSUME NEW h \in Handlers, HandlerDies(h) PROVE TypeOK'
  <2>1. call' \in [Handlers -> [key : Keys \cup {None}, at : {"idle", "swap", "log"}]]
    BY <1>4 DEF HandlerDies, Idle
  <2> QED
    BY <1>4, <2>1, ControlAssumption DEF HandlerDies, controller, history, effects
<1>5. CASE Edit
  <2>1. file' \in [Run -> File] /\ removed' \in BOOLEAN
    BY <1>5, EditType DEF Edit
  <2> QED
    BY <1>5, <2>1, ControlAssumption DEF Edit, controller, service, effects
<1>6. CASE Control
  <2> USE <1>6 DEF service, effects, history
  <2>1. From \in Run /\ Read \in File /\ mem.result \in Result /\ mem.result.file \in File
    BY ReadType DEF Result
  <2>2. CASE StopStep
    <3>1. [mem EXCEPT !.result = [status |-> "accepted", file |-> Read, applied |-> TRUE]]
            \in Controller
      BY <2>1 DEF Controller, Result
    <3>2. acted' \subseteq 1..writes' /\ twice' \in BOOLEAN
      <4>1. Read.write \in 1..writes
        BY <2>2, <2>1, ParseFile DEF StopStep, Present, Written, Read
      <4> QED
        BY <2>2, <4>1 DEF StopStep, Stop, Act
    <3> QED
      BY <2>2, <3>1, <3>2 DEF StopStep, Stop, Save
  <2>3. CASE QuietStep
    BY <2>3 DEF QuietStep
  <2>4. CASE TurnStep
    <3>1. mem' \in Controller /\ saved' \in Controller
      BY <2>4 DEF TurnStep, Save, Controller
    <3> QED
      BY <2>4, <3>1 DEF TurnStep
  <2>5. CASE Take
    <3>1. acted' \subseteq 1..writes' /\ twice' \in BOOLEAN
      <4>1. mem.result.file.write \in 1..writes
        BY <2>5, <2>1, ParseFile DEF Take, Unacted, Written
      <4> QED
        BY <2>5, <4>1 DEF Take, Act
    <3> QED
      BY <2>5, <3>1, AppliedType DEF Take, Save
  <2>6. CASE Reject
    <3>1. mem' \in Controller /\ mem' = saved'
      BY <2>6, <2>1 DEF Reject, Save, Controller, Result
    <3> QED
      BY <2>6, <3>1 DEF Reject
  <2>7. CASE Accept
    <3>1. mem' \in Controller /\ mem' = saved'
      BY <2>7, <2>1 DEF Accept, Save, Controller, Result
    <3>2. granted' \in Choices \cup {None}
      BY <2>7, <2>1, ParseFile DEF Accept
    <3> QED
      BY <2>7, <3>1, <3>2 DEF Accept
  <2> QED
    BY <2>2, <2>3, <2>4, <2>5, <2>6, <2>7, ControlSteps
<1>7. CASE Crash
  BY <1>7, ControlAssumption DEF Crash, service, history, effects
<1>8. CASE Resume
  <2>1. run' \in Run
    BY <1>8, ControlAssumption DEF Resume, Run
  <2> QED
    BY <1>8, <2>1, InheritedType DEF Resume, Save, service, history, effects
<1>9. CASE UNCHANGED vars
  BY <1>9 DEF vars, controller, service, history, effects
<1> QED
  BY <1>1, <1>2, <1>3, <1>4, <1>5, <1>6, <1>7, <1>8, <1>9 DEF Next

-----------------------------------------------------------------------------
(* The steps, by what the invariant reads of them *)

Kept ==
  UNCHANGED run /\ UNCHANGED saved /\ UNCHANGED mem /\ UNCHANGED at
  /\ UNCHANGED acted /\ UNCHANGED twice /\ UNCHANGED granted

Unread == Kept /\ UNCHANGED file /\ UNCHANGED writes

\* Some write of a file that is not yet a successor's.
FileStep ==
  /\ \E g \in Run, f \in File :
       /\ g <= run /\ (f = NoFile \/ f.write = writes + 1)
       /\ file' = [file EXCEPT ![g] = f]
  /\ writes' = writes + 1
  /\ Kept

LEMMA Steps ==
  ASSUME TypeOK, Reach, [Next]_vars
  PROVE  \/ Unread
         \/ FileStep
         \/ StopStep \/ QuietStep \/ TurnStep \/ Take \/ Reject \/ Accept
         \/ Crash \/ Resume
<1>1. ASSUME NEW h \in Handlers, Swap(h)
      PROVE  Unread \/ FileStep
  <2> DEFINE r == request[call[h].key]
  <2>1. SwapEffect(h) /\ call[h].key \in Keys /\ r \in Request /\ r # NoRequest
    BY <1>1, SwapSteps
  <2>2. r.run \in Run /\ r.run <= run
    BY <2>1, RequestType DEF Reach
  <2>3. Kept
    BY <1>1 DEF Swap, Kept, controller, effects
  <2>4. CASE UNCHANGED <<file, changes, writes>>
    BY <2>3, <2>4 DEF Unread
  <2>5. CASE ~UNCHANGED <<file, changes, writes>>
    <3>1. PICK text \in Text :
            file' = [file EXCEPT ![r.run] = [text |-> text, write |-> writes + 1]]
      BY <2>1, <2>5 DEF SwapEffect
    <3>2. writes' = writes + 1
      BY <2>1, <2>5 DEF SwapEffect
    <3>3. writes + 1 \in Nat
      BY DEF TypeOK
    <3>4. [text |-> text, write |-> writes + 1] \in File
      BY <3>3 DEF File
    <3> QED
      BY <2>2, <2>3, <3>1, <3>2, <3>4 DEF FileStep
  <2> QED
    BY <2>4, <2>5
<1>2. ASSUME Edit PROVE FileStep
  <2>1. file' \in [Run -> File] /\ run \in Run
    BY <1>2, EditType DEF TypeOK
  <2>2. PICK f : file' = [file EXCEPT ![run] = f] /\ (f = NoFile \/ f.write = writes + 1)
    BY <1>2 DEF Edit
  <2>3. f \in File
    BY <2>1, <2>2 DEF TypeOK
  <2> QED
    <3>1. run \in Run /\ run <= run
      BY <2>1, ControlAssumption DEF Run
    <3>2. writes' = writes + 1 /\ Kept
      BY <1>2 DEF Edit, Kept, controller, effects
    <3> QED
      BY <2>2, <2>3, <3>1, <3>2 DEF FileStep
<1>3. ASSUME NEW h \in Handlers, (\E k \in Keys : Apply(h, k)) \/ Log(h) \/ HandlerDies(h)
      PROVE  Unread
  BY <1>3 DEF Apply, Log, HandlerDies, history, effects, controller, Kept, Unread
<1>4. CASE UNCHANGED vars
  BY <1>4 DEF vars, history, effects, controller, Kept, Unread
<1> QED
  BY <1>1, <1>2, <1>3, <1>4, ControlSteps DEF Next

LEMMA Movers ==
  ASSUME TypeOK, Reach, [Next]_vars
  PROVE  Kept \/ StopStep \/ QuietStep \/ TurnStep \/ Take \/ Reject \/ Accept \/ Crash \/ Resume
<1>1. Unread => Kept
  BY DEF Unread
<1>2. FileStep => Kept
  BY DEF FileStep
<1> QED
  BY <1>1, <1>2, Steps

LEMMA Writers ==
  ASSUME TypeOK, Reach, [Next]_vars
  PROVE  FileStep \/ UNCHANGED <<file, writes>>
<1>1. Unread => UNCHANGED <<file, writes>>
  BY DEF Unread
<1>2. StopStep \/ QuietStep \/ TurnStep \/ Take \/ Reject \/ Accept \/ Crash \/ Resume =>
        UNCHANGED <<file, writes>>
  BY DEF StopStep, QuietStep, TurnStep, Take, Reject, Accept, Crash, Resume, history
<1> QED
  BY <1>1, <1>2, Steps

LEMMA NextSaved ==
  ASSUME TypeOK, Reach, Saved, [Next]_vars
  PROVE  Saved'
<1>1. CASE Kept \/ Crash \/ QuietStep
  BY <1>1 DEF Saved, Kept, Crash, QuietStep
<1>2. CASE StopStep \/ Take \/ Reject \/ Accept \/ Resume
  <2>1. \E new : Save(new)
    BY <1>2 DEF StopStep, Stop, Take, Reject, Accept, Resume
  <2> QED
    BY <2>1 DEF Saved, Save
<1>3. CASE TurnStep
  <2>1. PICK new : Save(new)
    BY <1>3 DEF TurnStep
  <2> QED
    BY <2>1 DEF Saved, Save
<1> QED
  BY <1>1, <1>2, <1>3, Movers

\* What the steps of the controller leave of what they do not decide on.
LEMMA ControlFrame ==
  ASSUME StopStep \/ QuietStep \/ TurnStep \/ Take \/ Reject \/ Accept \/ Crash
  PROVE  UNCHANGED <<run, file, service, writes, changes, removed>>
BY DEF StopStep, QuietStep, TurnStep, Take, Reject, Accept, Crash, history

LEMMA NextSource ==
  ASSUME TypeOK, Reach, [Next]_vars
  PROVE  mem'.source \in {0, run} \/ (mem'.source = mem.source /\ run' = run)
<1> USE DEF TypeOK
<1>1. CASE Kept \/ Crash \/ QuietStep
  BY <1>1 DEF Kept, Crash, QuietStep, history
<1>2. CASE StopStep
  BY <1>2, ReadType DEF StopStep, Stop, Save, Controller
<1>3. CASE TurnStep
  BY <1>3 DEF TurnStep, Save, Controller
<1>4. CASE Take
  BY <1>4 DEF Take, Save, Applied
<1>5. CASE Reject
  BY <1>5 DEF Reject, Save, From
<1>6. CASE Accept
  BY <1>6 DEF Accept, Save, Controller
<1>7. CASE Resume
  <2>1. SourceFor(saved.result, file[run]) \in {0, run}
    BY DEF SourceFor
  <2>2. mem'.source = SourceFor(saved.result, file[run])
    BY <1>7 DEF Resume, Save, Inherited
  <2> QED
    BY <2>1, <2>2
<1> QED
  BY <1>1, <1>2, <1>3, <1>4, <1>5, <1>6, <1>7, Movers

LEMMA ApplySteps ==
  ASSUME NEW h, NEW k, Apply(h, k)
  PROVE  \/ request[k] # NoRequest /\ UNCHANGED request
         \/ /\ request[k] = NoRequest
            /\ \E stop \in OwnerStop, choice \in Choices \cup {None} :
                 request' = [request EXCEPT ![k] =
                   [run |-> run, expected |-> file[run].text.revision,
                    stop |-> stop, choice |-> choice]]
BY DEF Apply

\* A request stays what it was made.
LEMMA RequestSteps ==
  ASSUME TypeOK, Reach, [Next]_vars, NEW k \in Keys
  PROVE  request'[k] = request[k] \/ (request[k] = NoRequest /\ request'[k].run = run)
<1>1. CASE UNCHANGED request
  BY <1>1
<1>2. ASSUME NEW h \in Handlers, NEW l \in Keys, Apply(h, l), request' # request
      PROVE  request'[k] = request[k] \/ (request[k] = NoRequest /\ request'[k].run = run)
  <2>1. request[l] = NoRequest
    BY <1>2, ApplySteps
  <2>2. PICK stop \in OwnerStop, choice \in Choices \cup {None} :
          request' = [request EXCEPT ![l] =
            [run |-> run, expected |-> file[run].text.revision, stop |-> stop, choice |-> choice]]
    BY <1>2, ApplySteps
  <2> QED
    BY <2>1, <2>2 DEF TypeOK
<1>3. UNCHANGED request \/ \E h \in Handlers, l \in Keys : Apply(h, l)
  <2>1. StopStep \/ QuietStep \/ TurnStep \/ Take \/ Reject \/ Accept \/ Crash => UNCHANGED request
    BY DEF StopStep, QuietStep, TurnStep, Take, Reject, Accept, Crash, service
  <2>2. (\E h \in Handlers : Swap(h) \/ Log(h) \/ HandlerDies(h)) => UNCHANGED request
    BY DEF Swap, Log, HandlerDies
  <2>3. Edit \/ Resume \/ UNCHANGED vars => UNCHANGED request
    BY DEF Edit, Resume, vars, service
  <2> QED
    BY <2>1, <2>2, <2>3, ControlSteps DEF Next
<1> QED
  BY <1>1, <1>2, <1>3

LEMMA CallSteps ==
  ASSUME TypeOK, TypeOK', Reach, [Next]_vars, NEW h \in Handlers, call'[h].at # "idle"
  PROVE  call'[h].key \in Keys /\ request'[call'[h].key] # NoRequest
<1>1. CASE UNCHANGED call
  <2>1. call[h].key \in Keys /\ request[call[h].key] # NoRequest
    BY <1>1 DEF Reach
  <2>2. request'[call[h].key] = request[call[h].key] \/ request[call[h].key] = NoRequest
    BY <2>1, RequestSteps
  <2> QED
    BY <1>1, <2>1, <2>2
<1>2. ASSUME NEW o \in Handlers, NEW k \in Keys, Apply(o, k)
      PROVE  call'[h].key \in Keys /\ request'[call'[h].key] # NoRequest
  <2>1. call' = [call EXCEPT ![o] = [key |-> k, at |-> "swap"]]
    BY <1>2 DEF Apply
  <2>2. request'[k] # NoRequest
    <3>1. CASE request[k] # NoRequest /\ UNCHANGED request
      BY <3>1
    <3>2. ASSUME NEW stop \in OwnerStop, NEW choice \in Choices \cup {None},
            request' = [request EXCEPT ![k] =
              [run |-> run, expected |-> file[run].text.revision,
               stop |-> stop, choice |-> choice]]
          PROVE  request'[k] # NoRequest
      <4>1. request'[k].run = run /\ run # 0
        BY <3>2, ControlAssumption DEF TypeOK, Run
      <4> QED
        BY <4>1 DEF NoRequest
    <3> QED
      BY <1>2, <3>1, <3>2, ApplySteps
  <2>3. CASE h = o
    BY <2>1, <2>2, <2>3 DEF TypeOK
  <2>4. CASE h # o
    <3>1. call'[h] = call[h]
      BY <2>1, <2>4 DEF TypeOK
    <3>2. call[h].key \in Keys /\ request[call[h].key] # NoRequest
      BY <3>1 DEF Reach
    <3>3. request'[call[h].key] = request[call[h].key] \/ request[call[h].key] = NoRequest
      BY <3>2, RequestSteps
    <3> QED
      BY <3>1, <3>2, <3>3
  <2> QED
    BY <2>3, <2>4
<1>3. ASSUME NEW o \in Handlers, Swap(o) \/ Log(o) \/ HandlerDies(o)
      PROVE  call'[h].key \in Keys /\ request'[call'[h].key] # NoRequest
  <2>1. UNCHANGED request
    BY <1>3 DEF Swap, Log, HandlerDies
  <2>2. call'[h].key = call[h].key /\ call[h].at # "idle"
    BY <1>3 DEF Swap, Log, HandlerDies, Idle, TypeOK
  <2> QED
    BY <2>1, <2>2 DEF Reach
<1>4. (StopStep \/ QuietStep \/ TurnStep \/ Take \/ Reject \/ Accept \/ Crash) \/ Edit \/ Resume
        \/ UNCHANGED vars => UNCHANGED call
  BY DEF StopStep, QuietStep, TurnStep, Take, Reject, Accept, Crash, Edit, Resume, vars, service
<1> QED
  BY <1>1, <1>2, <1>3, <1>4, ControlSteps DEF Next

LEMMA NextReach ==
  ASSUME TypeOK, TypeOK', Reach, [Next]_vars
  PROVE  Reach'
<1>1. run \in Nat /\ run' \in Nat /\ run <= run' /\ Run \subseteq Nat
  <2>1. run' = run \/ run' = run + 1
    BY Movers, ControlFrame DEF Kept, Resume
  <2> QED
    BY <2>1, ControlAssumption DEF TypeOK, Run
<1>2. \A k \in Keys : request'[k] = request[k] \/ (request[k] = NoRequest /\ request'[k].run = run)
  BY RequestSteps
<1>3. \A k \in Keys : request'[k] # NoRequest => request'[k].run <= run'
  <2> SUFFICES ASSUME NEW k \in Keys, request'[k] # NoRequest PROVE request'[k].run <= run'
    OBVIOUS
  <2>1. request'[k].run \in Nat
    BY <1>1 DEF TypeOK, Request
  <2> QED
    BY <1>1, <1>2, <2>1 DEF Reach
<1>4. \A h \in Handlers : call'[h].at # "idle" =>
        call'[h].key \in Keys /\ request'[call'[h].key] # NoRequest
  BY CallSteps DEF Reach
<1>5. mem'.source <= run'
  <2>1. mem.source \in Nat /\ mem'.source \in Nat
    BY ControlAssumption DEF TypeOK, Controller, Run
  <2> QED
    BY <1>1, <2>1, NextSource DEF Reach
<1>6. \A g \in Run : g > run' => file'[g] = NoFile
  <2>1. CASE FileStep
    <3>1. PICK g \in Run, f \in File : g <= run /\ file' = [file EXCEPT ![g] = f]
      BY <2>1 DEF FileStep
    <3>2. run' = run /\ file \in [Run -> File]
      BY <2>1 DEF FileStep, Kept, TypeOK
    <3> SUFFICES ASSUME NEW o \in Run, o > run' PROVE file'[o] = NoFile
      OBVIOUS
    <3>3. o > run /\ o # g /\ file'[o] = file[o]
      BY <1>1, <3>1, <3>2
    <3> QED
      BY <3>3 DEF Reach
  <2>2. CASE UNCHANGED file
    BY <1>1, <2>2 DEF Reach
  <2> QED
    BY <2>1, <2>2, Writers
<1> QED
  BY <1>3, <1>4, <1>5, <1>6 DEF Reach

-----------------------------------------------------------------------------
(* A write is one file's *)

LEMMA ResultSteps ==
  ASSUME TypeOK, Reach, Saved, [Next]_vars
  PROVE  \/ mem'.result.file = mem.result.file
         \/ mem'.result.file = Read /\ UNCHANGED <<file, writes>>
<1> USE DEF TypeOK, Controller, Result
<1>1. CASE Kept \/ Crash \/ QuietStep
  BY <1>1 DEF Kept, Crash, QuietStep
<1>2. CASE StopStep \/ Accept
  BY <1>2 DEF StopStep, Stop, Accept, Save
<1>3. CASE TurnStep
  BY <1>3 DEF TurnStep, Save
<1>4. CASE Take
  BY <1>4 DEF Take, Save, Applied
<1>5. CASE Reject
  BY <1>5 DEF Reject, Save, history
<1>6. CASE Resume
  BY <1>6 DEF Resume, Save, Inherited, Saved
<1> QED
  BY <1>1, <1>2, <1>3, <1>4, <1>5, <1>6, Movers

LEMMA NextWritten ==
  ASSUME TypeOK, Reach, Saved, Written, [Next]_vars
  PROVE  Written'
<1>1. /\ From \in Run /\ writes \in Nat /\ file \in [Run -> File]
      /\ mem.result.file \in File
  BY ReadType DEF TypeOK, Result
<1>2. CASE UNCHANGED <<file, writes>>
  BY <1>1, <1>2, ResultSteps DEF Written, Read
<1>3. CASE FileStep
  <2>1. PICK g \in Run, f \in File :
          (f = NoFile \/ f.write = writes + 1) /\ file' = [file EXCEPT ![g] = f]
    BY <1>3 DEF FileStep
  <2>2. writes' = writes + 1 /\ mem' = mem
    BY <1>3 DEF FileStep, Kept
  <2>3. f.write \in {0, writes + 1} /\ \A o \in Run : file[o].write \in Nat
    BY <1>1, <2>1, ParseFile DEF NoFile
  <2>4. mem.result.file.write \in Nat
    BY <1>1, ParseFile
  <2> QED
    BY <1>1, <2>1, <2>2, <2>3, <2>4 DEF Written
<1> QED
  BY <1>2, <1>3, Writers

-----------------------------------------------------------------------------
(* What is to be read has not taken effect *)

LEMMA ReadUnacted ==
  ASSUME TypeOK, Unacted, ~Consumed(Read)
  PROVE  Read.write \notin acted /\ file[run].write \notin acted
<1>1. CASE mem.source \in {0, run}
  BY <1>1 DEF Unacted, Read, From
<1>2. CASE mem.source \notin {0, run}
  BY <1>2 DEF Unacted, Read, From
<1> QED
  BY <1>1, <1>2

LEMMA NextUnacted ==
  ASSUME TypeOK, Reach, Saved, Written, Unacted, [Next]_vars
  PROVE  Unacted'
<1>0. /\ mem \in Controller /\ mem.result \in Result /\ mem.result.file \in File
      /\ run \in Run /\ From \in Run /\ Read \in File /\ file \in [Run -> File]
      /\ writes \in Nat /\ acted \subseteq 1..writes /\ mem.source \in Run \cup {0}
  BY ReadType DEF TypeOK, Result, Controller
<1>1. CASE Kept
  <2>1. CASE FileStep
    <3>1. PICK g \in Run, f \in File :
            (f = NoFile \/ f.write = writes + 1) /\ file' = [file EXCEPT ![g] = f]
      BY <2>1 DEF FileStep
    <3>2. f.write \notin acted
      BY <1>0, <3>1 DEF NoFile
    <3>3. \A o \in Run : file'[o].write \in acted => file'[o] = file[o]
      BY <1>0, <3>1, <3>2
    <3> QED
      BY <1>0, <1>1, <3>3 DEF Kept, Unacted, Pending, Consumed
  <2>2. CASE UNCHANGED <<file, writes>>
    BY <1>1, <2>2 DEF Kept, Unacted, Pending, Consumed
  <2> QED
    BY <2>1, <2>2, Writers
<1>2. CASE StopStep
  <2>1. /\ mem'.result = [status |-> "accepted", file |-> Read, applied |-> TRUE]
        /\ mem'.source = mem.source
    BY <1>0, <1>2 DEF StopStep, Stop, Save, Controller
  <2>2. /\ UNCHANGED <<file, run>> /\ acted' = acted \cup {Read.write}
        /\ twice' = (twice \/ Read.write \in acted)
    BY <1>2 DEF StopStep, Stop, Act
  <2>3. Read.write \notin acted /\ file[run].write \notin acted /\ Read.write > 0
    BY <1>2, ReadUnacted DEF StopStep, Present
  <2>4. file[run].write = Read.write => run = From
    BY <1>0, <2>3 DEF Written, Read
  <2>5. ~twice' /\ ~Pending'
    <3>1. ~twice'
      BY <2>2, <2>3 DEF Unacted
    <3>2. ~Pending'
      BY <2>1 DEF Pending
    <3> QED
      BY <3>1, <3>2
  <2>6. file'[run'].write \in acted' => mem'.source \in {0, run'} /\ Consumed(file[run])'
    <3>1. file'[run'].write \in acted' => file[run] = Read /\ mem.source \in {0, run}
      BY <2>2, <2>3, <2>4 DEF From, Read
    <3> QED
      BY <2>1, <2>2, <3>1 DEF Consumed
  <2>7. mem'.source # 0 => Consumed(file[mem.source])'
    BY <2>1, <2>2 DEF Consumed, Read, From
  <2> QED
    BY <2>5, <2>6, <2>7 DEF Unacted
<1>3. CASE QuietStep \/ Crash
  BY <1>3 DEF QuietStep, Crash, Unacted, Pending, Consumed, history, effects
<1>4. CASE TurnStep
  <2>1. mem'.result = mem.result /\ mem'.source = mem.source
    BY <1>0, <1>4 DEF TurnStep, Save, Controller
  <2> QED
    BY <1>4, <2>1 DEF TurnStep, Unacted, Pending, Consumed, history, effects
<1>5. CASE Take
  <2>1. /\ mem'.result = [mem.result EXCEPT !.applied = TRUE] /\ mem'.source = 0
        /\ UNCHANGED <<file, run>> /\ acted' = acted \cup {mem.result.file.write}
        /\ twice' = (twice \/ mem.result.file.write \in acted) /\ Pending
    BY <1>5 DEF Take, Save, Applied, Act
  <2>2. mem.result.file.write > 0 /\ mem.result.file.write \notin acted
    BY <2>1 DEF Unacted
  <2>3. ~twice' /\ ~Pending'
    BY <1>0, <2>1, <2>2 DEF Unacted, Pending, Result
  <2>4. file[run].write \notin acted
    BY <2>1 DEF Unacted, Pending, Consumed
  <2>5. file'[run'].write \in acted' => file[run] = mem.result.file
    BY <1>0, <2>1, <2>2, <2>4 DEF Written
  <2>6. file[run] = mem.result.file => Consumed(file[run])'
    BY <1>0, <2>1 DEF Consumed, Pending, Result
  <2> QED
    BY <2>1, <2>3, <2>5, <2>6 DEF Unacted
<1>6. CASE Reject
  <2>1. /\ mem'.result.status = "rejected" /\ mem'.source = From
        /\ UNCHANGED <<file, run, acted, twice>>
    BY <1>6 DEF Reject, Save, history, effects
  <2>2. Read.write \notin acted /\ file[run].write \notin acted
    <3>1. CASE Present(Read)
      BY <1>6, <3>1, ReadUnacted DEF Reject, New
    <3>2. CASE ~Present(Read)
      <4>1. Read.write \notin acted
        BY <1>0, <3>2, ParseFile DEF Present
      <4>2. mem.source \notin {0, run}
        BY <1>6, <3>2 DEF Reject, Required
      <4> QED
        BY <4>1, <4>2 DEF Unacted
    <3> QED
      BY <3>1, <3>2
  <2> QED
    BY <2>1, <2>2 DEF Unacted, Pending, Read
<1>7. CASE Accept
  <2>1. /\ mem'.result = [status |-> "accepted", file |-> Read, applied |-> FALSE]
        /\ mem'.source = mem.source /\ UNCHANGED <<file, run, acted, twice>>
    BY <1>0, <1>7 DEF Accept, Save, Controller, effects
  <2>2. Read.write \notin acted /\ file[run].write \notin acted /\ Read.write > 0
    BY <1>7, ReadUnacted DEF Accept, New, Present
  <2> QED
    BY <2>1, <2>2 DEF Unacted, Pending, Read, From
<1>8. CASE Resume
  <2>1. /\ run' = run + 1 /\ UNCHANGED <<file, acted, twice>>
        /\ mem'.result = mem.result /\ mem'.source = SourceFor(mem.result, file[run])
    BY <1>8 DEF Resume, Save, Inherited, Saved, history, effects
  <2>2. mem'.source \in {0, run}
    BY <2>1 DEF SourceFor
  <2>3. run' \in Run /\ run' > run
    BY <1>0, <1>8, <2>1, ControlAssumption DEF Resume, Run
  <2>4. file[run'].write = 0 /\ 0 \notin acted
    BY <1>0, <2>3 DEF Reach, NoFile
  <2>5. file[run].write \in acted => Consumed(file[run])
    BY DEF Unacted
  <2> QED
    BY <2>1, <2>2, <2>4, <2>5 DEF Unacted, Pending, Consumed
<1> QED
  BY <1>1, <1>2, <1>3, <1>4, <1>5, <1>6, <1>7, <1>8, Movers

-----------------------------------------------------------------------------
(* The choice there is, and what requests have changed *)

LEMMA NextChosen ==
  ASSUME TypeOK, Reach, Saved, Chosen, [Next]_vars
  PROVE  Chosen'
<1>0. /\ mem \in Controller /\ mem.result \in Result /\ mem.result.file \in File
      /\ Read \in File
  BY ReadType DEF TypeOK, Result, Controller
<1>1. CASE Kept \/ QuietStep
  BY <1>1 DEF Kept, QuietStep, Chosen, Settled, Merge, history
<1>2. CASE StopStep
  <2>1. /\ mem'.result = [status |-> "accepted", file |-> Read, applied |-> TRUE]
        /\ mem'.choice = mem.choice /\ granted' = granted /\ Stops(Read)
        /\ mem.choice = granted
    BY <1>0, <1>2 DEF StopStep, Stop, Save, Controller, Chosen
  <2> QED
    BY <2>1 DEF Chosen, Settled, Merge
<1>3. CASE TurnStep
  <2>1. mem'.result = mem.result /\ mem'.choice = mem.choice /\ granted' = granted
        /\ mem.choice = granted
    BY <1>0, <1>3 DEF TurnStep, Save, Controller, Chosen, history
  <2> QED
    BY <2>1 DEF Chosen, Settled, Merge
<1>4. CASE Take
  <2>1. /\ mem'.result = [mem.result EXCEPT !.applied = TRUE]
        /\ mem'.choice = Merge(mem, mem.result.file) /\ granted' = granted
        /\ mem.result.status = "accepted"
    BY <1>4 DEF Take, Save, Applied, Pending
  <2>2. mem'.choice = granted
    BY <2>1 DEF Chosen, Settled
  <2>3. Settled' = mem'.choice
    BY <1>0, <2>1 DEF Settled, Merge, Result
  <2> QED
    BY <2>1, <2>2, <2>3 DEF Chosen
<1>5. CASE Reject
  BY <1>5 DEF Reject, Save, Chosen, Settled, history
<1>6. CASE Accept
  <2>1. /\ mem'.result = [status |-> "accepted", file |-> Read, applied |-> FALSE]
        /\ mem'.choice = mem.choice /\ ~Stops(Read) /\ at' = "take"
        /\ granted' = (IF Read.text.choice # None THEN Read.text.choice ELSE granted)
        /\ mem.choice = granted
    BY <1>0, <1>6 DEF Accept, Save, Controller, Chosen
  <2> QED
    BY <2>1 DEF Chosen, Settled, Merge
<1>7. CASE Crash
  BY <1>7 DEF Crash, Chosen, Settled, Merge, history
<1>8. CASE Resume
  <2>1. mem'.result = mem.result /\ mem'.choice = Settled /\ granted' = granted
    BY <1>8 DEF Resume, Save, Inherited, Saved, Settled, history
  <2>2. Settled' = mem'.choice
    BY <2>1 DEF Settled, Merge
  <2> QED
    BY <2>1, <2>2 DEF Chosen
<1> QED
  BY <1>1, <1>2, <1>3, <1>4, <1>5, <1>6, <1>7, <1>8, Movers

\* Only a swap counts as a request's change, and only a removal takes a file's
\* revision back.
LEMMA ChangeSteps ==
  ASSUME TypeOK, Reach, [Next]_vars, ~removed'
  PROVE  /\ ~removed
         /\ \/ /\ UNCHANGED changes
               /\ \A g \in Run : file'[g].text.revision = file[g].text.revision
            \/ \E h \in Handlers : Swap(h) /\ SwapEffect(h)
<1>1. ASSUME NEW h \in Handlers, Swap(h)
      PROVE  ~removed /\ Swap(h) /\ SwapEffect(h)
  BY <1>1, SwapSteps DEF Swap
<1>2. CASE Edit
  <2>1. PICK text :
          /\ text.revision = file[run].text.revision
          /\ file' = [file EXCEPT ![run] = [text |-> text, write |-> writes + 1]]
    BY <1>2 DEF Edit
  <2>2. ~removed /\ UNCHANGED changes
    BY <1>2 DEF Edit
  <2> QED
    BY <2>1, <2>2 DEF TypeOK
<1>3. (StopStep \/ QuietStep \/ TurnStep \/ Take \/ Reject \/ Accept \/ Crash \/ Resume
        \/ UNCHANGED vars) => UNCHANGED <<file, changes, removed>>
  BY DEF StopStep, QuietStep, TurnStep, Take, Reject, Accept, Crash, Resume, vars, history
<1>4. ASSUME NEW h \in Handlers, (\E k \in Keys : Apply(h, k)) \/ Log(h) \/ HandlerDies(h)
      PROVE  UNCHANGED <<file, changes, removed>>
  BY <1>4 DEF Apply, Log, HandlerDies, history
<1> QED
  BY <1>1, <1>2, <1>3, <1>4, ControlSteps DEF Next

LEMMA NextChanged ==
  ASSUME TypeOK, TypeOK', Reach, Changed, [Next]_vars
  PROVE  Changed'
<1> SUFFICES ASSUME ~removed', NEW k \in Keys
             PROVE  changes'[k] = 0 \/ Spent(k)'
  BY DEF Changed
<1>1. ~removed /\ (changes[k] = 0 \/ Spent(k))
  BY ChangeSteps DEF Changed
<1>2. request[k] # NoRequest => /\ request'[k] = request[k] /\ request[k].run \in Run
                                /\ request[k].expected \in Nat
  BY RequestSteps, RequestType
<1>3. \A g \in Run : file[g].text.revision \in Nat
  BY ParseFile DEF TypeOK
<1>4. CASE UNCHANGED changes /\ \A g \in Run : file'[g].text.revision = file[g].text.revision
  BY <1>1, <1>2, <1>4 DEF Spent
<1>5. ASSUME NEW h \in Handlers, Swap(h), SwapEffect(h)
      PROVE  changes'[k] = 0 \/ Spent(k)'
  <2> DEFINE l == call[h].key
             r == request[l]
  <2>1. l \in Keys /\ r # NoRequest /\ r.run \in Run /\ UNCHANGED request
    BY <1>5, SwapSteps, RequestType DEF Swap
  <2>2. CASE UNCHANGED <<file, changes, writes>>
    BY <1>1, <2>1, <2>2 DEF Spent
  <2>3. CASE ~UNCHANGED <<file, changes, writes>>
    <3>1. PICK text \in Text :
            /\ text.revision = file[r.run].text.revision + 1
            /\ file' = [file EXCEPT ![r.run] = [text |-> text, write |-> writes + 1]]
      BY <1>5, <2>3 DEF SwapEffect
    <3>2. /\ changes' = [changes EXCEPT ![l] = changes[l] + 1]
          /\ r.expected = file[r.run].text.revision
      BY <1>5, <2>3 DEF SwapEffect
    <3>3. \A g \in Run : file[g].text.revision <= file'[g].text.revision
      BY <1>3, <3>1 DEF TypeOK
    <3>4. CASE k = l
      <4>1. changes[k] = 0
        BY <1>1, <1>3, <2>1, <3>2, <3>4 DEF Spent
      <4> QED
        BY <1>3, <2>1, <3>1, <3>2, <3>4, <4>1 DEF TypeOK, Spent
    <3>5. CASE k # l
      <4>1. changes'[k] = changes[k]
        BY <3>2, <3>5 DEF TypeOK
      <4>2. \A g \in Run : file'[g].text.revision \in Nat
        BY ParseFile DEF TypeOK
      <4> QED
        BY <1>1, <1>2, <1>3, <2>1, <3>3, <4>1, <4>2 DEF Spent
    <3> QED
      BY <3>4, <3>5
  <2> QED
    BY <2>2, <2>3
<1> QED
  BY <1>4, <1>5, ChangeSteps

-----------------------------------------------------------------------------
(* Theorems *)

LEMMA InitInv == Init => Inv
<1> SUFFICES ASSUME Init PROVE Inv
  OBVIOUS
<1>1. TypeOK
  BY InitType
<1>2. 1 \in Run /\ Run \subseteq Nat
  BY ControlAssumption DEF Run
<1>3. Reach /\ Saved /\ Written
  BY <1>2 DEF Init, Reach, Saved, Written, Fresh, NoResult, NoFile, Idle
<1>4. Unacted
  BY <1>2 DEF Init, Unacted, Pending, Fresh, NoResult, NoFile
<1>5. Chosen /\ Changed
  BY DEF Init, Chosen, Changed, Settled, Fresh, NoResult
<1> QED
  BY <1>1, <1>3, <1>4, <1>5 DEF Inv

\* The invariant is kept by every step of the service, of people, of the
\* controller and of the resume.
THEOREM Invariant == Spec => []Inv
<1>1. ASSUME Inv, [Next]_vars PROVE Inv'
  <2>1. TypeOK /\ Reach /\ Saved /\ Written /\ Unacted /\ Chosen /\ Changed
    BY <1>1 DEF Inv
  <2>2. TypeOK'
    BY <1>1, <2>1, NextType
  <2>3. Reach' /\ Saved' /\ Written'
    BY <1>1, <2>1, <2>2, NextReach, NextSaved, NextWritten
  <2>4. Unacted' /\ Chosen' /\ Changed'
    BY <1>1, <2>1, <2>2, NextUnacted, NextChosen, NextChanged
  <2> QED
    BY <2>2, <2>3, <2>4 DEF Inv
<1> QED
  BY <1>1, InitInv, PTL DEF Spec

\* Every variable has its type in every reachable state of every instance.
THEOREM TypeCorrect == Spec => []TypeOK
<1>1. Inv => TypeOK
  BY DEF Inv
<1> QED
  BY <1>1, Invariant, PTL

\* However the controller dies between the record of an acceptance and its
\* application, and whatever generations there have been, no write of an
\* overrides file takes effect twice (workflow.py:14948-15020).
THEOREM OnceApplied == Spec => []AppliedOnce
<1>1. Inv => AppliedOnce
  BY DEF Inv, Unacted, AppliedOnce
<1> QED
  BY <1>1, Invariant, PTL

\* Every turn of every generation has the choice that was accepted last
\* (run_state.py:149-171).
THEOREM ChoiceSurvives == Spec => []AcceptedSurvives
<1>1. Inv => AcceptedSurvives
  BY DEF Inv, Chosen, AcceptedSurvives
<1> QED
  BY <1>1, Invariant, PTL

\* However many handlers serve a retried request and wherever they die, it
\* changes the file at most once, unless the file is removed by hand
\* (services.py:65-110, persistence.py:526-575).
THEOREM OnceChanged == Spec => []ChangesOnce
<1>1. ASSUME Inv PROVE ChangesOnce
  <2> SUFFICES ASSUME ~removed, NEW k \in Keys PROVE changes[k] <= 1
    BY DEF ChangesOnce
  <2>1. changes[k] \in {0, 1}
    BY <1>1 DEF Inv, Changed, Spent
  <2> QED
    BY <2>1
<1> QED
  BY <1>1, Invariant, PTL

=============================================================================
