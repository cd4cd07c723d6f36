------------------------------ MODULE JobEvents ------------------------------
(***************************************************************************)
(* A background job, its transcript and the SSE broker                      *)
(* (internal/api/jobs.go, sse.go).                                          *)
(*                                                                         *)
(* The job's goroutine appends a line to the bounded transcript under the   *)
(* job's mutex and then hands it to the broker, which offers it to every    *)
(* subscriber without waiting.  A viewer subscribes, fetches the transcript *)
(* and follows the events.  Lines are numbered.                             *)
(***************************************************************************)
EXTENDS Naturals, Sequences, FiniteSets

CONSTANTS
    maxJobLines,    \* lines a job keeps (500)
    ChanCap,        \* events a subscriber's channel holds (64)
    Viewers,
    MaxLines        \* bound: lines a job writes

ASSUME JobAssumption == maxJobLines \in Nat \ {0}

VARIABLES
    jobRec,         \* status, transcript, lines written, and where its goroutine is
    viewer,         \* viewer -> subscription, channel, events received, transcript fetched
    told            \* lines handed to the broker (history)

jobVars == <<jobRec, viewer, told>>

NoJob == [status |-> "none", lines |-> <<>>, wrote |-> 0, pc |-> "none"]
NoViewer == [on |-> FALSE, chan |-> <<>>, seen |-> {}, fetch |-> "none", output |-> {},
             status |-> "none", first |-> 1, dropped |-> FALSE]
Elements(s) == {s[i] : i \in DOMAIN s}

JobInit == jobRec = NoJob /\ viewer = [v \in Viewers |-> NoViewer] /\ told = {}

---------------------------------------------------------------------------
\* Offer an event to every subscriber; a full channel loses it.
Publish(e) ==
    viewer' = [v \in Viewers |->
        IF ~viewer[v].on THEN viewer[v]
        ELSE IF Len(viewer[v].chan) < ChanCap
             THEN [viewer[v] EXCEPT !.chan = Append(@, e)]
             ELSE [viewer[v] EXCEPT !.dropped = TRUE]]

\* The job is registered before its goroutine starts.
StartJob ==
    /\ jobRec.status = "none"
    /\ jobRec' = [NoJob EXCEPT !.status = "running", !.pc = "run"]
    /\ UNCHANGED <<viewer, told>>

Kept(s, n) == IF Len(s) >= maxJobLines THEN Append(Tail(s), n) ELSE Append(s, n)

\* Mutant: the line goes to the subscribers before it is in the transcript.
SinkFirst ==
    \/ /\ jobRec.pc = "run" /\ jobRec.wrote < MaxLines
       /\ jobRec' = [jobRec EXCEPT !.wrote = @ + 1, !.pc = "sink"]
       /\ told' = told \cup {jobRec.wrote + 1}
       /\ Publish([line |-> jobRec.wrote + 1, status |-> jobRec.status])
    \/ /\ jobRec.pc = "sink"
       /\ jobRec' = [jobRec EXCEPT !.lines = Kept(@, jobRec.wrote), !.pc = "run"]
       /\ UNCHANGED <<viewer, told>>

\* Job.Write: the transcript first, under the mutex, then the sink, outside it.
Write ==
    \/ /\ jobRec.pc = "run" /\ jobRec.wrote < MaxLines
       /\ jobRec' = [jobRec EXCEPT !.lines = Kept(@, jobRec.wrote + 1), !.wrote = @ + 1, !.pc = "sink"]
       /\ UNCHANGED <<viewer, told>>
    \/ /\ jobRec.pc = "sink"
       /\ jobRec' = [jobRec EXCEPT !.pc = "run"]
       /\ told' = told \cup {jobRec.wrote}
       /\ Publish([line |-> jobRec.wrote, status |-> jobRec.status])

\* The function returned: the outcome is set, then announced.
Finish ==
    \/ /\ jobRec.pc = "run"
       /\ \E s \in {"success", "failed"} : jobRec' = [jobRec EXCEPT !.status = s, !.pc = "end"]
       /\ UNCHANGED <<viewer, told>>
    \/ /\ jobRec.pc = "end"
       /\ jobRec' = [jobRec EXCEPT !.pc = "over"]
       /\ Publish([line |-> 0, status |-> jobRec.status])
       /\ UNCHANGED told

---------------------------------------------------------------------------
Subscribe(v) ==
    /\ viewer[v] = NoViewer
    /\ viewer' = [viewer EXCEPT ![v].on = TRUE]
    /\ UNCHANGED <<jobRec, told>>

\* handleGetJob copies the transcript under the mutex; the status is read when the
\* answer is encoded, without it.
GetJob(v) ==
    /\ jobRec.status # "none" /\ viewer[v].on
    /\ \/ /\ viewer[v].fetch = "none"
          /\ viewer' = [viewer EXCEPT ![v].fetch = "output", ![v].output = Elements(jobRec.lines),
                        ![v].first = IF jobRec.lines = <<>> THEN 1 ELSE Head(jobRec.lines)]
       \/ /\ viewer[v].fetch = "output"
          /\ viewer' = [viewer EXCEPT ![v].fetch = "done", ![v].status = jobRec.status]
    /\ UNCHANGED <<jobRec, told>>

\* The handler of the stream writes the next event to its client,
Handler(v) ==
    /\ viewer[v].on /\ viewer[v].chan # <<>>
    /\ viewer' = [viewer EXCEPT ![v].seen = @ \cup {Head(viewer[v].chan).line},
                                ![v].chan = Tail(@)]
    /\ UNCHANGED <<jobRec, told>>

\* or ends with it.
Unsubscribe(v) ==
    /\ viewer[v].on
    /\ viewer' = [viewer EXCEPT ![v] = NoViewer]
    /\ UNCHANGED <<jobRec, told>>

JobNext ==
    \/ StartJob \/ Write \/ Finish
    \/ \E v \in Viewers : Subscribe(v) \/ GetJob(v) \/ Handler(v) \/ Unsubscribe(v)

JobSpec == JobInit /\ [][JobNext]_jobVars

---------------------------------------------------------------------------
\* jobs.go:3-4 "keeps a bounded buffer so the UI can show a live terminal view and
\* late joiners can fetch the full transcript": a viewer that subscribed and then
\* fetched has, or has coming, every line the job has handed on, from the first
\* line still kept when it fetched, unless its channel was full.
LateJoinerComplete ==
    \A v \in Viewers :
        viewer[v].fetch # "none" /\ ~viewer[v].dropped =>
            \A n \in told : n >= viewer[v].first =>
                \/ n \in viewer[v].output \cup viewer[v].seen
                \/ \E i \in DOMAIN viewer[v].chan : viewer[v].chan[i].line = n

---------------------------------------------------------------------------
(* The inductive invariant of LateJoinerComplete.                          *)

JobStatus == {"none", "running", "success", "failed"}
JobEvent == [line : Nat, status : JobStatus]
JobRecord == [status : JobStatus, lines : Seq(Nat), wrote : Nat,
              pc : {"none", "run", "sink", "end", "over"}]
ViewerRecord == [on : BOOLEAN, chan : Seq(JobEvent), seen : SUBSET Nat,
                 fetch : {"none", "output", "done"}, output : SUBSET Nat, status : JobStatus,
                 first : Nat, dropped : BOOLEAN]

JobShape == jobRec \in JobRecord /\ viewer \in [Viewers -> ViewerRecord]

\* The transcript is the last lines, one number after the other.
Numbered(s, last) ==
    /\ Len(s) <= last
    /\ s = <<>> => last = 0
    /\ \A i \in 1..Len(s) : s[i] = last - Len(s) + i

LinesNumbered == Numbered(jobRec.lines, jobRec.wrote) /\ told \subseteq 0..jobRec.wrote

\* No job is one that has written nothing.
NotStarted == jobRec.status = "none" => jobRec = NoJob

\* Who has fetched the transcript is subscribed.
FetchedOn == \A v \in Viewers : viewer[v].fetch # "none" => viewer[v].on

JobInv == JobShape /\ LinesNumbered /\ NotStarted /\ FetchedOn /\ LateJoinerComplete
=============================================================================
