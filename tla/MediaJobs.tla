------------------------------- MODULE MediaJobs -------------------------------
(***************************************************************************)
(* Voice notes.  Posting an audio attachment inserts a transcription and   *)
(* an audio_transcode row (services/tasks.go); pollers hand the PENDING    *)
(* rows to the queue, and workers download, convert and save               *)
(* (worker/tasks/transcription.go, audio_transcode.go).                    *)
(*                                                                         *)
(* The pollers' query locks its rows FOR UPDATE SKIP LOCKED, but no        *)
(* transaction is open: the locks are gone when the query ends, and what   *)
(* follows it is one statement at a time.                                  *)
(***************************************************************************)
EXTENDS Naturals, FiniteSets, FiniteSetsExt

CONSTANTS
    Attachments,    \* audio attachments
    Compatible,     \* those that play everywhere as they are
    Kinds,          \* the tables that are in play
    Pollers,        \* poller runs that may be in progress at a time
    Workers,        \* slots for transcribe_audio and transcode_audio
    Limit,          \* LIMIT of the pollers' query
    MaxFaults, MaxStops     \* bounds on failed calls and worker restarts

ASSUME MediaAssumption ==
    /\ Compatible \subseteq Attachments
    /\ Kinds \subseteq {"transcription", "transcode"}
    /\ IsFiniteSet(Workers)
    /\ Limit \in Nat \ {0} /\ MaxFaults \in Nat /\ MaxStops \in Nat

VARIABLES
    att,        \* attachments: not posted yet, live or deleted
    row,        \* transcriptions and audio_transcodes
    source,     \* the recordings in S3
    file,       \* the transcoded files in S3
    poll,       \* a poller run's rows still to claim, and the one it has claimed
    queue,      \* how many messages there are for a job
    work,       \* what each worker is in the middle of
    dropped,    \* jobs given up by a stop or by a write that failed
    saved,      \* jobs whose result has been written to their row
    faults, stops

media == <<att, row, source, file, poll, queue, work, dropped, saved, faults, stops>>

Jobs == [kind : Kinds, att : Attachments]

NoRow == [status |-> "none", output |-> "none"]
NoJob == [kind |-> "none"]

\* output is transcript_text, or what transcoded_file_url points to.
Row == [status : {"PENDING", "PROCESSING", "COMPLETED", "FAILED"},
        output : {"none", "text", "source", "file"}]

Resting == [todo |-> {}, job |-> NoJob]
NoWork  == [step |-> "idle"]

\* A row lives exactly as long as its attachment.
MediaTypeOK ==
    /\ att \in [Attachments -> {"unborn", "live", "deleted"}]
    /\ row \in [Jobs -> Row \cup {NoRow}]
    /\ \A j \in Jobs : row[j] = NoRow <=> att[j.att] # "live"
    /\ source \subseteq Attachments /\ file \subseteq Attachments
    /\ poll \in [Pollers -> [todo : SUBSET Jobs, job : Jobs \cup {NoJob}]]
    /\ queue \in [Jobs -> Nat]
    /\ work \in [Workers -> {NoWork} \cup [step : {"download", "convert", "save"}, job : Jobs]]
    /\ dropped \subseteq Jobs /\ saved \subseteq Jobs
    /\ faults \in Nat /\ stops \in Nat

MediaInit ==
    /\ att = [a \in Attachments |-> "unborn"]
    /\ row = [j \in Jobs |-> NoRow]
    /\ source = {} /\ file = {}
    /\ poll = [p \in Pollers |-> Resting]
    /\ queue = [j \in Jobs |-> 0]
    /\ work = [w \in Workers |-> NoWork]
    /\ dropped = {} /\ saved = {}
    /\ faults = 0 /\ stops = 0

Fault == faults < MaxFaults /\ faults' = faults + 1

\* Mutant: the row is written anew.
SetAnew(j, status) ==
    IF row[j] = NoRow THEN row ELSE [row EXCEPT ![j] = [status |-> status, output |-> "none"]]

\* UPDATE ... WHERE id: nothing if the attachment has been deleted meanwhile.
Set(j, status) == IF row[j] = NoRow THEN row ELSE [row EXCEPT ![j].status = status]

Complete(j, output) ==
    IF row[j] = NoRow THEN row
    ELSE [row EXCEPT ![j] = [status |-> "COMPLETED", output |-> output]]

--------------------------------------------------------------------------------
(* Handlers *)

\* The browser uploads a recording to the URL that GetPresignedUploadsURL has given it,
\* which stays good for fifteen minutes whatever becomes of the attachment.
Upload(a) ==
    /\ a \notin source
    /\ source' = source \cup {a}
    /\ UNCHANGED <<att, row, file, poll, queue, work, dropped, saved, faults, stops>>

\* insertAttachmentWithTranscription inserts the rows in the transaction that posts the
\* attachment; nobody looks whether the recording is there.
PostAttachment(a) ==
    /\ att[a] = "unborn"
    /\ att' = [att EXCEPT ![a] = "live"]
    /\ row' = [j \in Jobs |-> IF j.att = a THEN [status |-> "PENDING", output |-> "none"]
                              ELSE row[j]]
    /\ UNCHANGED <<source, file, poll, queue, work, dropped, saved, faults, stops>>

\* diffAttachments, at the commit of an edit; the rows go with the attachment.
DeleteAttachment(a) ==
    /\ att[a] = "live"
    /\ att' = [att EXCEPT ![a] = "deleted"]
    /\ row' = [j \in Jobs |-> IF j.att = a THEN NoRow ELSE row[j]]
    /\ UNCHANGED <<source, file, poll, queue, work, dropped, saved, faults, stops>>

\* DeleteObjects: in a goroutine that an edit starts after its commit, or for DELETE
\* /upload/s3-object, which takes any recording of the caller's organisation, an
\* attachment's or not.  Neither knows of the transcoded file.
RemoveObject(a) ==
    /\ a \in source
    /\ source' = source \ {a}
    /\ UNCHANGED <<att, row, file, poll, queue, work, dropped, saved, faults, stops>>

--------------------------------------------------------------------------------
(* Pollers *)

Pending(k) == {j \in Jobs : j.kind = k /\ row[j].status = "PENDING"}

Poll(p, k) ==
    /\ poll[p] = Resting
    /\ Pending(k) # {}
    /\ \E todo \in SUBSET Pending(k) :
        /\ Cardinality(todo) = Min({Limit, Cardinality(Pending(k))})
        /\ poll' = [poll EXCEPT ![p].todo = todo]
    /\ UNCHANGED <<att, row, source, file, queue, work, dropped, saved, faults, stops>>

\* SetTranscriptionProcessing, whatever the row's status is by now; its error is
\* dropped and the job is enqueued all the same.
Claim(p, j) ==
    /\ poll[p].job = NoJob /\ j \in poll[p].todo
    /\ poll' = [poll EXCEPT ![p] = [todo |-> @.todo \ {j}, job |-> j]]
    /\ \/ row' = Set(j, "PROCESSING") /\ faults' = faults
       \/ row' = row /\ Fault
    /\ UNCHANGED <<att, source, file, queue, work, dropped, saved, stops>>

Enqueue(p) ==
    /\ poll[p].job # NoJob
    /\ queue' = [queue EXCEPT ![poll[p].job] = @ + 1]
    /\ poll' = [poll EXCEPT ![p].job = NoJob]
    /\ UNCHANGED <<att, row, source, file, work, dropped, saved, faults, stops>>

\* Mutant: a message that could not be sent is only logged.
FailEnqueueLogged(p) ==
    /\ poll[p].job # NoJob
    /\ Fault
    /\ poll' = [poll EXCEPT ![p].job = NoJob]
    /\ UNCHANGED <<att, row, source, file, queue, work, dropped, saved, stops>>

FailEnqueue(p) ==
    /\ poll[p].job # NoJob
    /\ Fault
    /\ poll' = [poll EXCEPT ![p].job = NoJob]
    /\ \/ row' = Set(poll[p].job, "FAILED") /\ dropped' = dropped
       \/ row' = row /\ dropped' = dropped \cup {poll[p].job}
    /\ UNCHANGED <<att, source, file, queue, work, saved, stops>>

--------------------------------------------------------------------------------
(* Workers *)

Start(w, j) ==
    /\ work[w] = NoWork /\ queue[j] > 0
    /\ queue' = [queue EXCEPT ![j] = @ - 1]
    /\ work' = [work EXCEPT ![w] = [step |-> "download", job |-> j]]
    /\ UNCHANGED <<att, row, source, file, poll, dropped, saved, faults, stops>>

Skips(j) == j.kind = "transcode" /\ j.att \in Compatible

Download(w) ==
    /\ work[w].step = "download"
    /\ LET j == work[w].job
       IN  IF Skips(j) THEN work' = [work EXCEPT ![w].step = "save"]
           ELSE /\ j.att \in source
                /\ work' = [work EXCEPT ![w].step = "convert"]
    /\ UNCHANGED <<att, row, source, file, poll, queue, dropped, saved, faults, stops>>

\* Whisper, or ffmpeg and the upload of its output under the attachment's name.
Convert(w) ==
    /\ work[w].step = "convert"
    /\ file' = IF work[w].job.kind = "transcode" THEN file \cup {work[w].job.att} ELSE file
    /\ work' = [work EXCEPT ![w].step = "save"]
    /\ UNCHANGED <<att, row, source, poll, queue, dropped, saved, faults, stops>>

Output(j) ==
    IF j.kind = "transcription" THEN "text" ELSE IF Skips(j) THEN "source" ELSE "file"

Save(w) ==
    /\ work[w].step = "save"
    /\ LET j == work[w].job
       IN  /\ row' = Complete(j, Output(j))
           /\ saved' = IF row[j] = NoRow THEN saved ELSE saved \cup {j}
    /\ work' = [work EXCEPT ![w] = NoWork]
    /\ UNCHANGED <<att, source, file, poll, queue, dropped, faults, stops>>

\* The task reports its error to the queue, which may try it again.
GivesUp(w, settled) ==
    LET j == work[w].job
    IN  /\ work' = [work EXCEPT ![w] = NoWork]
        /\ \/ queue' = [queue EXCEPT ![j] = @ + 1] /\ dropped' = dropped
           \/ queue' = queue /\ dropped' = IF settled THEN dropped ELSE dropped \cup {j}

\* The recording is not there, or not any more.
FailDownload(w) ==
    /\ work[w].step = "download" /\ ~Skips(work[w].job) /\ work[w].job.att \notin source
    /\ row' = Set(work[w].job, "FAILED")
    /\ GivesUp(w, TRUE)
    /\ UNCHANGED <<att, source, file, poll, saved, faults, stops>>

\* A download, Whisper, ffmpeg or an upload fails; the write that says so may too,
\* and nobody looks at its error.
FailWork(w) ==
    /\ work[w].step \in {"download", "convert"}
    /\ Fault
    /\ \/ row' = Set(work[w].job, "FAILED") /\ GivesUp(w, TRUE)
       \/ row' = row /\ GivesUp(w, FALSE)
    /\ UNCHANGED <<att, source, file, poll, saved, stops>>

FailSave(w) ==
    /\ work[w].step = "save"
    /\ Fault
    /\ GivesUp(w, FALSE)
    /\ UNCHANGED <<att, row, source, file, poll, saved, stops>>

\* The process ends: poller runs with it, and the jobs at work unless the queue
\* hands them out again.
StopWorker ==
    /\ stops < MaxStops
    /\ stops' = stops + 1
    /\ poll' = [p \in Pollers |-> Resting]
    /\ work' = [w \in Workers |-> NoWork]
    /\ LET busy == {w \in Workers : work[w] # NoWork}
       IN  \E again \in SUBSET busy :
            /\ queue' = [j \in Jobs |->
                            queue[j] + Cardinality({w \in again : work[w].job = j})]
            /\ dropped' = dropped \cup {work[w].job : w \in busy \ again}
                            \cup ({poll[p].job : p \in Pollers} \ {NoJob})
    /\ UNCHANGED <<att, row, source, file, saved, faults>>

--------------------------------------------------------------------------------
MediaNext ==
    \/ \E a \in Attachments :
        Upload(a) \/ PostAttachment(a) \/ DeleteAttachment(a) \/ RemoveObject(a)
    \/ \E p \in Pollers :
        \/ \E k \in Kinds : Poll(p, k)
        \/ \E j \in Jobs : Claim(p, j)
        \/ Enqueue(p) \/ FailEnqueue(p)
    \/ \E w \in Workers :
        \/ \E j \in Jobs : Start(w, j)
        \/ Download(w) \/ FailDownload(w) \/ Convert(w) \/ Save(w)
        \/ FailWork(w) \/ FailSave(w)
    \/ StopWorker

MediaSpec == MediaInit /\ [][MediaNext]_media

\* A poll every thirty seconds for each table, and workers that go on with what
\* they have begun and take every message in the end.
MediaFairness ==
    /\ \A k \in Kinds : WF_media(\E p \in Pollers : Poll(p, k))
    /\ \A p \in Pollers, j \in Jobs : WF_media(Claim(p, j))
    /\ \A p \in Pollers : WF_media(Enqueue(p))
    /\ \A j \in Jobs : SF_media(\E w \in Workers : Start(w, j))
    /\ \A w \in Workers :
        WF_media(Download(w) \/ FailDownload(w) \/ Convert(w) \/ Save(w))

MediaFairSpec == MediaSpec /\ MediaFairness

--------------------------------------------------------------------------------
(* Properties *)

\* A second run of a job takes its row back to PROCESSING, and to FAILED when the
\* recording has been deleted meanwhile; what the first has produced stays in the row for
\* as long as the attachment lives, and the file it points to in S3.
ResultsOutliveFailures ==
    \A j \in saved : row[j] # NoRow =>
        row[j].output = Output(j) /\ (Output(j) = "file" => j.att \in file)

InCharge(j) ==
    \/ queue[j] > 0
    \/ \E w \in Workers : work[w] # NoWork /\ work[w].job = j
    \/ \E p \in Pollers : poll[p].job = j

\* No row is PROCESSING with nobody left to end it, though a poller may claim a row
\* that another run has already had completed; only a stop, or a write that fails
\* after the work, leaves one behind.
NothingStranded ==
    \A j \in Jobs : row[j].status = "PROCESSING" => InCharge(j) \/ j \in dropped

\* Overlapping runs and repeated jobs take a row through its states more than once;
\* in the end it stays COMPLETED or FAILED, where no job was dropped.
SettlesForGood ==
    \A j \in Jobs :
        <>[](row[j] = NoRow \/ row[j].status \in {"COMPLETED", "FAILED"} \/ j \in dropped)
================================================================================
