------------------------------ MODULE LoadTest -------------------------------
(***************************************************************************)
(* LoadTest: LoadTestPanel (apps/notiflo-web/components/alerts), which     *)
(* starts a test at the API, follows its events on an SSE stream and can   *)
(* cancel it.  What runs the test is no part of this repository: here it   *)
(* does what the panel's types and handlers expect of it.                  *)
(*                                                                         *)
(* handleStart and handleCancel await the API.  The button says Run while  *)
(* running is false, so a start can be cancelled, and another clicked,     *)
(* before the first has answered.  A test is known by its number, a step's *)
(* ticks by none of them or all.                                           *)
(***************************************************************************)
EXTENDS Integers, FiniteSets, Sequences

CONSTANTS Tests, NoTest,   \* handleStart calls, each with the test it starts
          NumSteps,        \* parsedSteps.length
          MaxCancels       \* bound: cancels of one test at once

ASSUME LoadTestAssumption == NumSteps \in Nat \ {0} /\ MaxCancels \in Nat /\ NoTest \notin Tests

Outcomes == {"completed", "failed", "cancelled"}

VARIABLES server,      \* per test: "new", "asked", "running" or its outcome
          emitted,     \* per test, its events so far: 3 a step, then the outcome
          stream,      \* per test: "none", "open" or "closed"
          heard,       \* per test, how many events its stream delivered
          mounted, running, testId, ref,   \* ref: the test eventSourceRef's stream is of
          completedSteps, currentStep, ticksDone, result, error,
          cancelling,  \* per test, the handleCancel calls awaiting the API about it
          hurried      \* history: since a start on a quiet panel, a click came while
                       \* an earlier one was awaiting

service == <<server, emitted>>
shown == <<completedSteps, currentStep, ticksDone, result, error>>
loadTestVars == <<service, stream, heard, mounted, running, testId, ref, shown, cancelling, hurried>>

Streaming == {t \in Tests : stream[t] = "open"}
Cancelling == {t \in Tests : cancelling[t] > 0}

Starting == {t \in Tests : server[t] = "asked" \/ (server[t] # "new" /\ stream[t] = "none")}

LoadTestInit ==
  /\ server = [t \in Tests |-> "new"] /\ emitted = [t \in Tests |-> 0]
  /\ stream = [t \in Tests |-> "none"] /\ heard = emitted
  /\ mounted = TRUE /\ running = FALSE /\ testId = NoTest /\ ref = NoTest
  /\ completedSteps = <<>> /\ currentStep = 0 /\ ticksDone = FALSE
  /\ result = NoTest /\ error = FALSE
  /\ cancelling = emitted /\ hurried = FALSE

-----------------------------------------------------------------------------
(***************************************************************************)
(* handleStart.                                                            *)
(***************************************************************************)
StepsKept == completedSteps   \* mutant: the last test's results stay
StepsAtStart == <<>>

HandleStart(t) ==
  /\ mounted /\ ~running /\ server[t] = "new"
  /\ server' = [server EXCEPT ![t] = "asked"]
  /\ running' = TRUE /\ result' = NoTest /\ error' = FALSE
  /\ completedSteps' = StepsAtStart /\ currentStep' = 0 /\ ticksDone' = FALSE
  /\ hurried' = (Starting \cup Cancelling \cup Streaming # {})
  /\ UNCHANGED <<emitted, stream, heard, mounted, testId, ref, cancelling>>

StartAccepted(t) ==   \* by the API
  /\ server[t] = "asked" /\ server' = [server EXCEPT ![t] = "running"]
  /\ UNCHANGED <<emitted, stream, heard, mounted, running, testId, ref, shown, cancelling, hurried>>

(* An unmounted panel opens it all the same.                               *)
OpenStream(t) ==
  /\ server[t] \notin {"new", "asked"} /\ stream[t] = "none"
  /\ stream' = [stream EXCEPT ![t] = "open"] /\ ref' = t
  /\ testId' = IF mounted THEN t ELSE testId
  /\ UNCHANGED <<service, heard, mounted, running, shown, cancelling, hurried>>

NotRunning == FALSE

StartFails(t) ==   \* the API refuses, or its answer is lost
  /\ server[t] # "new" /\ stream[t] = "none"
  /\ stream' = [stream EXCEPT ![t] = "closed"]
  /\ server' = [server EXCEPT ![t] = IF @ = "asked" THEN "failed" ELSE @]
  /\ running' = (mounted /\ NotRunning) /\ error' = mounted
  /\ UNCHANGED <<emitted, heard, mounted, testId, ref, completedSteps, currentStep, ticksDone, result,
                 cancelling, hurried>>

-----------------------------------------------------------------------------
(***************************************************************************)
(* The service, and its events as the panel takes them.                    *)
(***************************************************************************)
EventAt(n) ==
  IF n > 3 * NumSteps THEN "outcome"
  ELSE CASE n % 3 = 1 -> "step_started" [] n % 3 = 2 -> "step_progress" [] OTHER -> "step_completed"

Emit(t) ==
  /\ server[t] = "running" /\ emitted[t] <= 3 * NumSteps
  /\ emitted' = [emitted EXCEPT ![t] = @ + 1]
  /\ server' = IF emitted'[t] > 3 * NumSteps THEN [server EXCEPT ![t] = "completed"] ELSE server
  /\ UNCHANGED <<stream, heard, mounted, running, testId, ref, shown, cancelling, hurried>>

Fail(t) ==
  /\ server[t] = "running" /\ server' = [server EXCEPT ![t] = "failed"]
  /\ UNCHANGED <<emitted, stream, heard, mounted, running, testId, ref, shown, cancelling, hurried>>

StepOf(n) == n \div 3 + 1

OnStepEvent(t) ==
  /\ t \in Streaming /\ heard[t] < emitted[t] /\ heard[t] < 3 * NumSteps
  /\ heard' = [heard EXCEPT ![t] = @ + 1]
  /\ LET event == EventAt(heard'[t])
         step == StepOf(heard[t])
     IN  /\ currentStep' = IF event = "step_started" THEN step ELSE currentStep
         /\ ticksDone' = IF event = "step_completed" THEN ticksDone ELSE event = "step_progress"
         /\ completedSteps' = IF event = "step_completed" THEN Append(completedSteps, <<t, step>>)
                              ELSE completedSteps
  /\ UNCHANGED <<service, stream, mounted, running, testId, ref, result, error, cancelling, hurried>>

OnOutcome(t) ==
  /\ t \in Streaming /\ server[t] \in Outcomes
  /\ heard[t] = emitted[t] \/ (server[t] = "completed" /\ heard[t] = 3 * NumSteps)
  /\ running' = NotRunning
  /\ result' = IF server[t] = "completed" THEN t ELSE result
  /\ error' = (error \/ server[t] = "failed")
  /\ stream' = [stream EXCEPT ![t] = "closed"]
  /\ UNCHANGED <<service, heard, mounted, testId, ref, completedSteps, currentStep, ticksDone,
                 cancelling, hurried>>

OnError(t) ==
  /\ t \in Streaming
  /\ running' = NotRunning /\ stream' = [stream EXCEPT ![t] = "closed"]
  /\ UNCHANGED <<service, heard, mounted, testId, ref, shown, cancelling, hurried>>

-----------------------------------------------------------------------------
(***************************************************************************)
(* handleCancel: it awaits the API about the testId it was rendered with,  *)
(* of an earlier test while a start has not answered.                      *)
(***************************************************************************)
CloseRef == [stream EXCEPT ![ref] = IF @ = "open" THEN "closed" ELSE @]

ClosedNothing == stream   \* mutant: the stream is left open
ClosedStream == IF ref = NoTest THEN stream ELSE CloseRef

HandleCancel ==
  /\ mounted /\ running
  /\ hurried' = (hurried \/ Starting # {})
  /\ IF testId = NoTest
     THEN stream' = ClosedStream /\ running' = NotRunning /\ UNCHANGED cancelling
     ELSE /\ cancelling[testId] < MaxCancels
          /\ cancelling' = [cancelling EXCEPT ![testId] = @ + 1] /\ UNCHANGED <<stream, running>>
  /\ UNCHANGED <<service, heard, mounted, testId, ref, shown>>

CancelTaken(t) ==   \* by the API
  /\ t \in Cancelling /\ server[t] = "running"
  /\ server' = [server EXCEPT ![t] = "cancelled"]
  /\ UNCHANGED <<emitted, stream, heard, mounted, running, testId, ref, shown, cancelling, hurried>>

CancelAnswered(t) ==   \* or failed: the panel does not mind
  /\ t \in Cancelling /\ cancelling' = [cancelling EXCEPT ![t] = @ - 1]
  /\ stream' = ClosedStream /\ running' = NotRunning
  /\ UNCHANGED <<service, heard, mounted, testId, ref, shown, hurried>>

Unmount ==
  /\ mounted /\ mounted' = FALSE /\ running' = FALSE
  /\ stream' = ClosedStream
  /\ hurried' = (hurried \/ Starting # {})
  /\ UNCHANGED <<service, heard, testId, ref, shown, cancelling>>

LoadTestNext ==
  \/ \E t \in Tests : \/ HandleStart(t) \/ StartAccepted(t) \/ OpenStream(t) \/ StartFails(t)
                      \/ Emit(t) \/ Fail(t)
                      \/ OnStepEvent(t) \/ OnOutcome(t) \/ OnError(t)
                      \/ CancelTaken(t) \/ CancelAnswered(t)
  \/ HandleCancel \/ Unmount

LoadTestSpec == LoadTestInit /\ [][LoadTestNext]_loadTestVars

-----------------------------------------------------------------------------
LoadTestTypeOK ==
  /\ server \in [Tests -> {"new", "asked", "running"} \cup Outcomes]
  /\ emitted \in [Tests -> 0..(3 * NumSteps + 1)] /\ stream \in [Tests -> {"none", "open", "closed"}]
  /\ heard \in [Tests -> 0..(3 * NumSteps)]
  /\ {mounted, running, ticksDone, error, hurried} \subseteq BOOLEAN
  /\ {testId, ref, result} \subseteq Tests \cup {NoTest}
  /\ cancelling \in [Tests -> 0..MaxCancels]
  /\ completedSteps \in Seq(Tests \X (1..NumSteps)) /\ currentStep \in 0..NumSteps

(* The steps shown are those of one test, the last started, from the first *)
(* on and in order, unless a start was cancelled, left or repeated before  *)
(* it answered; a start on a panel where nothing is pending sets it right. *)
ShownStepsAreOneRun ==
  hurried \/ \A i \in DOMAIN completedSteps : completedSteps[i] = <<testId, i>>

(* While Run is offered no stream is open, nor is one ever left open by an *)
(* unmounted panel, unless a start was under way.                          *)
IdleHearsNothing == hurried \/ running \/ Streaming = {}

(* Cancel is offered only for something: a start or a cancel under way, or *)
(* an open stream.  Also in every lapse, running comes to an end.          *)
RunningIsSomething ==
  running => Starting \cup Cancelling \cup Streaming # {}

(* LoadTestPanel.tsx:157: between a step's end and the next one's start the*)
(* bar counts its ticks twice; it never shows more than one step too much. *)
ProgressAtMostOneOver ==
  hurried \/ Len(completedSteps) + (IF ticksDone THEN 1 ELSE 0) <= NumSteps + 1

(* What the panel shows is one test, whatever is clicked while its start,  *)
(* its cancel or its stream is under way.                                  *)
ShownIsOneRun == LoadTestTypeOK /\ ShownStepsAreOneRun /\ ProgressAtMostOneOver

(* The button agrees with the streams: Run with none, Cancel with some.    *)
ButtonAgrees == IdleHearsNothing /\ RunningIsSomething

=============================================================================
