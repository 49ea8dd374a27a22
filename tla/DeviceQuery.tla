---------------------------- MODULE DeviceQuery ----------------------------
(***************************************************************************)
(* One call of Device.Query (api.go): a request is sent through the cloud  *)
(* to a device.  A body that fills the first read goes to an object store  *)
(* first, in parts uploaded by goroutines of their own; then the query is  *)
(* triggered, polled until it is done, and its result fetched.             *)
(*                                                                         *)
(* A byte is its position in the body.  Calls share no state that changes, *)
(* so one call is the whole system.  Every HTTP request carries the        *)
(* request's context: it may fail at any time, and once the context is     *)
(* done it cannot be answered any more.  Left out: headers, encodings, and *)
(* a cloud that hands out fewer upload URLs than there are parts.          *)
(***************************************************************************)
EXTENDS Naturals

CONSTANTS
    RequestBodyMax, PartSize, RequestObjectMax, MultipartRequestObjectMax,
    StatusPollTimeMin, StatusPollTimeMax,
    BodyMax     \* bound on the bodies

ASSUME QueryAssumption ==
    /\ RequestBodyMax \in Nat \ {0} /\ PartSize \in Nat \ {0} /\ BodyMax \in Nat
    /\ RequestObjectMax \in Nat /\ MultipartRequestObjectMax \in Nat
    /\ StatusPollTimeMin \in Nat \ {0} /\ StatusPollTimeMax \in Nat
    /\ StatusPollTimeMin <= StatusPollTimeMax

VARIABLES
    body,           \* bytes in the body of the request
    ctxDone,        \* the request's context is done
    pc,             \* where Query is
    payloadLength,  \* what the first Read returned
    read,           \* bytes handed to uploads so far
    running,        \* parts being uploaded, as pairs of a first and a last byte
    stored,         \* bytes in the object store
    uploadErr,
    pollDuration,
    query,          \* the query in the cloud
    ranOn,          \* the bytes the device was sent
    result          \* what Query returned

inputVars == <<body, payloadLength>>
uploadVars == <<read, running, stored, uploadErr>>
queryVars == <<pollDuration, query, ranOn>>
vars == <<inputVars, ctxDone, pc, uploadVars, queryVars, result>>

Smaller(a, b) == IF a < b THEN a ELSE b

Init ==
    /\ body \in 0..BodyMax /\ payloadLength = 0
    /\ ctxDone = FALSE /\ pc = "read"
    /\ read = 0 /\ running = {} /\ stored = {} /\ uploadErr = FALSE
    /\ pollDuration = StatusPollTimeMin /\ query = "none" /\ ranOn = {}
    /\ result = "none"

Goto(l) == pc' = l /\ UNCHANGED result
Return(r) == pc' = "returned" /\ result' = r

\* A request: its answer counts only while the context is not done.
Requests == {"create", "create_one", "put", "trigger", "fallback", "poll", "fetch"}
Answered(l) == pc = l /\ ~ctxDone

Fail ==
    /\ pc \in Requests /\ Return("failed")
    /\ UNCHANGED <<inputVars, ctxDone, uploadVars, queryVars>>

-----------------------------------------------------------------------------
(* The body. *)

\* One Read into a buffer of RequestBodyMax: an io.Reader may return less than it has.
Read ==
    /\ pc = "read"
    /\ \/ \E n \in 0..Smaller(body, RequestBodyMax) :
            /\ payloadLength' = n
            /\ Goto(IF n = RequestBodyMax THEN "create" ELSE "trigger")
       \/ Return("unread") /\ UNCHANGED payloadLength
    /\ UNCHANGED <<body, ctxDone, uploadVars, queryVars>>

\* The device takes parts, or (404) one object, or (404 again, Fail) neither.
CreateMultipart ==
    /\ Answered("create")
    /\ Goto("split") \/ Goto("create_one")
    /\ UNCHANGED <<inputVars, ctxDone, uploadVars, queryVars>>

CreateObject ==
    /\ Answered("create_one") /\ Goto("object")
    /\ UNCHANGED <<inputVars, ctxDone, uploadVars, queryVars>>

\* The next part: a goroutine uploads it.  A reader that fails and a body that is too
\* large end Query without waiting for the uploads.
ReadPart ==
    /\ pc = "split"
    /\ LET last == Smaller(read + PartSize, body) IN
         \/ Return("unread") /\ UNCHANGED uploadVars
         \/ read = body /\ Goto("wait") /\ UNCHANGED uploadVars
         \/ /\ read < body /\ last > MultipartRequestObjectMax
            /\ Return("unread") /\ UNCHANGED uploadVars
         \/ /\ read < body /\ last <= MultipartRequestObjectMax
            /\ running' = running \cup {<<read + 1, last>>}
            /\ read' = last /\ Goto("split") /\ UNCHANGED <<stored, uploadErr>>
    /\ UNCHANGED <<inputVars, ctxDone, queryVars>>

UploadEnds(p) ==
    /\ p \in running /\ running' = running \ {p}
    /\ UNCHANGED <<inputVars, ctxDone, pc, read, queryVars, result>>

\* The part is stored.
Uploaded(p) ==
    /\ UploadEnds(p) /\ ~ctxDone
    /\ stored' = stored \cup (p[1]..p[2]) /\ UNCHANGED uploadErr

\* The request failed or its answer is not 200.  The mutant does not look at the status.
Unnoticed(p) ==
    UploadEnds(p) /\ (uploadErr' = TRUE \/ UNCHANGED uploadErr) /\ UNCHANGED stored
UploadFails(p) ==
    UploadEnds(p) /\ uploadErr' = TRUE /\ UNCHANGED stored

\* The uploads carry the request's context.  The mutant forgets it.
Detached(p) == FALSE
UploadAborts(p) == ctxDone /\ UploadFails(p)

\* wg.Wait.  Its mutant does not wait for the goroutines.
NoWait == TRUE
AllEnded == running = {}
Wait ==
    /\ pc = "wait" /\ AllEnded
    /\ IF uploadErr THEN Return("failed") ELSE Goto("trigger")
    /\ UNCHANGED <<inputVars, ctxDone, uploadVars, queryVars>>

\* A single object: read whole, then put.
ReadObject ==
    /\ pc = "object"
    /\ \/ Return("unread")
       \/ body <= RequestObjectMax /\ Goto("put")
    /\ UNCHANGED <<inputVars, ctxDone, uploadVars, queryVars>>

UploadObject ==
    /\ Answered("put") /\ Goto("trigger")
    /\ stored' = 1..body
    /\ UNCHANGED <<inputVars, ctxDone, read, running, uploadErr, queryVars>>

-----------------------------------------------------------------------------
(* The query. *)

Content == IF payloadLength < RequestBodyMax THEN 1..payloadLength ELSE stored

\* The query starts, and is done at once or not.  Its answer may be lost (Fail comes after).
Trigger ==
    /\ Answered("trigger") /\ query = "none"
    /\ query' \in {"running", "done"} /\ ranOn' = Content
    /\ \/ Goto(IF query' = "running" THEN "sleep" ELSE "fetch")
       \/ Return("failed")
    /\ UNCHANGED <<inputVars, ctxDone, uploadVars, pollDuration>>

\* 404: the device is reached directly, if the body is small.
NotFound ==
    /\ Answered("trigger")
    /\ payloadLength < RequestBodyMax /\ Goto("fallback")
    /\ UNCHANGED <<inputVars, ctxDone, uploadVars, queryVars>>

FallbackQuery ==
    /\ Answered("fallback")
    /\ ranOn' = 1..payloadLength /\ Return("direct")
    /\ UNCHANGED <<inputVars, ctxDone, uploadVars, pollDuration, query>>

Sleep ==
    /\ pc = "sleep"
    /\ \/ ctxDone /\ Return("cancelled")
       \/ Goto("poll")
    /\ UNCHANGED <<inputVars, ctxDone, uploadVars, queryVars>>

\* The duration after d.  The mutant doubles whatever is below the maximum.
Doubled(d) == IF d < StatusPollTimeMax THEN d * 2 ELSE d
NextPoll(d) == IF d < StatusPollTimeMax THEN Smaller(d * 2, StatusPollTimeMax) ELSE d

Poll ==
    /\ Answered("poll")
    /\ Goto(IF query = "running" THEN "sleep" ELSE "fetch")
    /\ pollDuration' = NextPoll(pollDuration)
    /\ UNCHANGED <<inputVars, ctxDone, uploadVars, query, ranOn>>

QueryDone ==
    /\ query = "running" /\ query' = "done"
    /\ UNCHANGED <<inputVars, ctxDone, pc, uploadVars, pollDuration, ranOn, result>>

\* The result is in the answer or downloaded.  The status checked after the download is
\* the poll's: the page of a failed download is taken for the result.
Fetch ==
    /\ Answered("fetch")
    /\ Return("response") \/ Return("error_page")
    /\ UNCHANGED <<inputVars, ctxDone, uploadVars, queryVars>>

\* Close of the response's body deletes the query, in a time of its own.
Close ==
    /\ result \in {"response", "error_page"} /\ query = "done"
    /\ query' = "deleted"
    /\ UNCHANGED <<inputVars, ctxDone, pc, uploadVars, pollDuration, ranOn, result>>

Cancel ==
    /\ ~ctxDone /\ ctxDone' = TRUE
    /\ UNCHANGED <<inputVars, pc, uploadVars, queryVars, result>>

Next ==
    \/ Read \/ CreateMultipart \/ CreateObject \/ ReadPart \/ Wait
    \/ ReadObject \/ UploadObject
    \/ \E p \in running : Uploaded(p) \/ UploadFails(p)
    \/ Trigger \/ NotFound \/ FallbackQuery \/ Sleep \/ Poll \/ QueryDone \/ Fetch
    \/ Fail \/ Close \/ Cancel

\* The body's reader returns and the sleep ends.  Requests are not fair: they may hang
\* until the context is done, which aborts them.
Fairness ==
    /\ WF_vars(Read) /\ WF_vars(ReadPart) /\ WF_vars(ReadObject)
    /\ WF_vars(Wait) /\ WF_vars(Sleep)
    /\ WF_vars(ctxDone /\ Fail)
    /\ \A p \in (1..BodyMax) \X (1..BodyMax) : WF_vars(UploadAborts(p))

Spec == Init /\ [][Next]_vars /\ Fairness

-----------------------------------------------------------------------------
\* Type invariant; the polls stay between the two durations (api.go:236, 266-271).
ControlTypes ==
    /\ ctxDone \in BOOLEAN /\ uploadErr \in BOOLEAN
    /\ pc \in Requests \cup {"read", "split", "wait", "object", "sleep", "returned"}
    /\ query \in {"none", "running", "done", "deleted"}
    /\ result \in {"none", "unread", "failed", "cancelled", "direct", "response",
                   "error_page"}
BodyTypes ==
    /\ body \in 0..BodyMax /\ read \in 0..body
    /\ payloadLength \in 0..RequestBodyMax /\ payloadLength <= body
    /\ running \subseteq (1..body) \X (1..body)
    /\ stored \subseteq 1..body /\ ranOn \subseteq 1..body
PollType == pollDuration \in StatusPollTimeMin..StatusPollTimeMax
QueryTypeOK == ControlTypes /\ BodyTypes /\ PollType

FullRead == payloadLength = Smaller(body, RequestBodyMax)
Sent == query # "none" \/ result = "direct"

\* Whatever parts fail, in whatever order the uploads end, a device is sent the whole
\* body, unless the first Read was short: then the rest is dropped (api.go:79, 138-177).
WholeBodySent == Sent /\ FullRead => ranOn = 1..body

\* A device is sent the body of the request.  Refuted by the short Read.
BodySent == Sent => ranOn = 1..body

\* No upload outlives the call, unless the body could not be read to its end: those
\* returns do not wait (api.go:141-151, 174).
NoOrphanUpload == pc = "returned" /\ running # {} => result = "unread"

\* Query returns once its context is done, uploads, polls and sleeps included.
QueryReturns == ctxDone ~> pc = "returned"
=============================================================================
