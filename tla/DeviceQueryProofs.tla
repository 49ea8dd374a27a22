------------------------- MODULE DeviceQueryProofs -------------------------
(***************************************************************************)
(* Device.Query sends the whole body, for every size of body, buffer, part *)
(* and limit.  The inductive invariant follows the bytes: what the uploads *)
(* have been handed is stored or being uploaded, as long as none failed.   *)
(***************************************************************************)
EXTENDS DeviceQuery, TLAPS

\* Before the query, the requests that put the body somewhere.
Preparing == {"create", "create_one", "split", "wait", "object", "put"}

\* Only a body that filled the first Read goes to the object store.
FirstRead ==
    /\ pc \in Preparing => payloadLength = RequestBodyMax
    /\ pc = "fallback" => payloadLength < RequestBodyMax

\* Every byte handed to an upload is stored or in a part that is being uploaded.
Handed ==
    /\ pc \in {"read", "create"} => read = 0
    /\ pc \in {"split", "wait"} /\ ~uploadErr =>
          \A b \in 1..read : b \in stored \/ \E p \in running : b \in p[1]..p[2]
    /\ pc = "wait" => read = body
    /\ pc = "trigger" /\ payloadLength = RequestBodyMax => stored = 1..body

\* No query before the trigger.
Unsent ==
    /\ pc # "returned" => result = "none"
    /\ pc \in Preparing \cup {"read", "trigger", "fallback"} => query = "none"

QInv == QueryTypeOK /\ FirstRead /\ Handed /\ Unsent /\ WholeBodySent

LEMMA QueryInit == Init => QInv
<1> SUFFICES ASSUME Init PROVE QInv
  OBVIOUS
<1> USE QueryAssumption DEF Init
<1>1. QueryTypeOK
  <2>1. ControlTypes
    BY DEF ControlTypes, Requests
  <2>2. BodyTypes
    BY DEF BodyTypes
  <2>3. PollType
    BY DEF PollType
  <2> QED BY <2>1, <2>2, <2>3 DEF QueryTypeOK
<1>2. FirstRead /\ Handed /\ Unsent /\ WholeBodySent
  BY DEF FirstRead, Handed, Unsent, WholeBodySent, Sent, Preparing
<1> QED BY <1>1, <1>2 DEF QInv

\* Before the query is triggered: the body is read and uploaded.
LEMMA BodySteps ==
    ASSUME QInv,
           Read \/ CreateMultipart \/ CreateObject \/ ReadPart \/ Wait \/ ReadObject
             \/ UploadObject \/ (\E p \in running : Uploaded(p) \/ UploadFails(p))
    PROVE  QInv'
<1> USE QueryAssumption DEF QInv, QueryTypeOK, inputVars, uploadVars, queryVars, Goto, Return,
      Answered
<1>1. CASE Read
  <2> USE <1>1 DEF Read
  <2>1. ControlTypes'
    BY DEF ControlTypes, Requests
  <2>2. BodyTypes'
    BY DEF BodyTypes, Smaller
  <2>3. PollType'
    BY DEF PollType
  <2>4. FirstRead'
    BY DEF FirstRead, Unsent, Preparing, Requests, Smaller, BodyTypes
  <2>5. Handed'
    BY DEF Handed, BodyTypes, ControlTypes
  <2>6. Unsent'
    BY DEF Unsent, Preparing, Requests
  <2>7. WholeBodySent'
    BY DEF WholeBodySent, Sent, FullRead, Unsent, FirstRead, BodyTypes, Preparing, Requests,
      Smaller
  <2> QED BY <2>1, <2>2, <2>3, <2>4, <2>5, <2>6, <2>7
<1>2. CASE CreateMultipart \/ CreateObject \/ ReadObject
  <2> USE <1>2 DEF CreateMultipart, CreateObject, ReadObject
  <2>1. ControlTypes'
    BY DEF ControlTypes, Requests
  <2>2. BodyTypes'
    BY DEF BodyTypes
  <2>3. PollType'
    BY DEF PollType
  <2>4. FirstRead'
    BY DEF FirstRead, Unsent, Preparing, Requests
  <2>5. Handed'
    BY DEF Handed, BodyTypes, ControlTypes
  <2>6. Unsent'
    BY DEF Unsent, Preparing, Requests
  <2>7. WholeBodySent'
    BY DEF WholeBodySent, Sent, FullRead, Unsent, FirstRead, BodyTypes, Preparing, Requests
  <2> QED BY <2>1, <2>2, <2>3, <2>4, <2>5, <2>6, <2>7
<1>3. CASE ReadPart
  <2> USE <1>3 DEF ReadPart
  <2>1. ControlTypes'
    BY DEF ControlTypes, Requests
  <2>2. BodyTypes'
    <3> DEFINE last == Smaller(read + PartSize, body)
    <3>1. read < body => last \in (read + 1)..body
      BY DEF BodyTypes, Smaller
    <3> HIDE DEF last
    <3>2. CASE UNCHANGED uploadVars
      BY <3>2 DEF BodyTypes
    <3>3. CASE read < body /\ running' = running \cup {<<read + 1, last>>} /\ read' = last
      <4>1. read' \in 0..body
        BY <3>1, <3>3 DEF BodyTypes
      <4>2. <<read + 1, last>> \in (1..body) \X (1..body)
        BY <3>1, <3>3 DEF BodyTypes
      <4> QED BY <3>3, <4>1, <4>2 DEF BodyTypes
    <3> QED BY <3>2, <3>3 DEF last
  <2>3. PollType'
    BY DEF PollType
  <2>4. FirstRead'
    BY DEF FirstRead, Unsent, Preparing, Requests
  <2>5. Handed'
    <3> DEFINE last == Smaller(read + PartSize, body)
    <3>1. read < body => last \in (read + 1)..body
      BY DEF BodyTypes, Smaller
    <3> HIDE DEF last
    <3>2. CASE UNCHANGED uploadVars
      BY <3>2 DEF Handed, last
    <3>3. CASE /\ read < body /\ running' = running \cup {<<read + 1, last>>} /\ read' = last
               /\ pc' = "split"
      <4>1. \A b \in 1..read' : b \in 1..read \/ b \in (read + 1)..last
        BY <3>1, <3>3 DEF BodyTypes
      <4>2. <<read + 1, last>> \in running'
        BY <3>3
      <4>3. ASSUME ~uploadErr', NEW b \in 1..read'
            PROVE  b \in stored' \/ \E p \in running' : b \in p[1]..p[2]
        <5>1. CASE b \in 1..read
          BY <3>3, <4>3, <5>1 DEF Handed
        <5>2. CASE b \in (read + 1)..last
          BY <4>2, <5>2
        <5> QED BY <4>1, <5>1, <5>2
      <4> QED BY <3>3, <4>3 DEF Handed
    <3> QED BY <3>2, <3>3 DEF last
  <2>6. Unsent'
    BY DEF Unsent, Preparing, Requests
  <2>7. WholeBodySent'
    BY DEF WholeBodySent, Sent, FullRead, Unsent, FirstRead, BodyTypes, Preparing, Requests
  <2> QED BY <2>1, <2>2, <2>3, <2>4, <2>5, <2>6, <2>7
<1>4. CASE Wait
  <2> USE <1>4 DEF Wait, AllEnded
  <2>1. ControlTypes'
    BY DEF ControlTypes, Requests
  <2>2. BodyTypes'
    BY DEF BodyTypes
  <2>3. PollType'
    BY DEF PollType
  <2>4. FirstRead'
    BY DEF FirstRead, Unsent, Preparing, Requests
  <2>5. Handed'
    BY DEF Handed, BodyTypes, ControlTypes
  <2>6. Unsent'
    BY DEF Unsent, Preparing, Requests
  <2>7. WholeBodySent'
    BY DEF WholeBodySent, Sent, FullRead, Unsent, FirstRead, BodyTypes, Preparing, Requests
  <2> QED BY <2>1, <2>2, <2>3, <2>4, <2>5, <2>6, <2>7
<1>5. CASE UploadObject
  <2> USE <1>5 DEF UploadObject
  <2>1. ControlTypes'
    BY DEF ControlTypes, Requests
  <2>2. BodyTypes'
    BY DEF BodyTypes
  <2>3. PollType'
    BY DEF PollType
  <2>4. FirstRead'
    BY DEF FirstRead, Unsent, Preparing, Requests
  <2>5. Handed'
    BY DEF Handed, BodyTypes, ControlTypes
  <2>6. Unsent'
    BY DEF Unsent, Preparing, Requests
  <2>7. WholeBodySent'
    BY DEF WholeBodySent, Sent, FullRead, Unsent, FirstRead, BodyTypes, Preparing, Requests
  <2> QED BY <2>1, <2>2, <2>3, <2>4, <2>5, <2>6, <2>7
<1>6. ASSUME NEW p \in running, Uploaded(p) PROVE QInv'
  <2> USE <1>6 DEF Uploaded, UploadEnds
  <2>1. ControlTypes'
    BY DEF ControlTypes, Requests
  <2>2. BodyTypes'
    <3>1. /\ p[1]..p[2] \subseteq 1..body /\ running' \subseteq running
          /\ stored' = stored \cup (p[1]..p[2]) /\ UNCHANGED <<inputVars, read, ranOn>>
      BY DEF BodyTypes
    <3> QED BY <3>1 DEF BodyTypes, inputVars
  <2>3. PollType'
    BY DEF PollType
  <2>4. FirstRead'
    BY DEF FirstRead, Unsent, Preparing, Requests
  <2>5. Handed'
    BY DEF Handed, BodyTypes, ControlTypes
  <2>6. Unsent'
    BY DEF Unsent, Preparing, Requests
  <2>7. WholeBodySent'
    BY DEF WholeBodySent, Sent, FullRead, Unsent, FirstRead, BodyTypes, Preparing, Requests
  <2> QED BY <2>1, <2>2, <2>3, <2>4, <2>5, <2>6, <2>7
<1>7. ASSUME NEW p \in running, UploadFails(p) PROVE QInv'
  <2> USE <1>7 DEF UploadFails, UploadEnds
  <2>1. ControlTypes'
    BY DEF ControlTypes, Requests
  <2>2. BodyTypes'
    <3>1. running' \subseteq running /\ UNCHANGED <<inputVars, read, stored, ranOn>>
      OBVIOUS
    <3> QED BY <3>1 DEF BodyTypes
  <2>3. PollType'
    BY DEF PollType
  <2>4. FirstRead'
    BY DEF FirstRead, Unsent, Preparing, Requests
  <2>5. Handed'
    BY DEF Handed, BodyTypes, ControlTypes
  <2>6. Unsent'
    BY DEF Unsent, Preparing, Requests
  <2>7. WholeBodySent'
    BY DEF WholeBodySent, Sent, FullRead, Unsent, FirstRead, BodyTypes, Preparing, Requests
  <2> QED BY <2>1, <2>2, <2>3, <2>4, <2>5, <2>6, <2>7
<1> QED BY <1>1, <1>2, <1>3, <1>4, <1>5, <1>6, <1>7

\* The query and its result.
LEMMA QuerySteps ==
    ASSUME QInv,
           Trigger \/ NotFound \/ FallbackQuery \/ Sleep \/ Poll \/ QueryDone \/ Fetch
             \/ Fail \/ Close \/ Cancel
    PROVE  QInv'
<1> USE QueryAssumption DEF QInv, QueryTypeOK, inputVars, uploadVars, queryVars, Goto, Return,
      Answered
<1>1. CASE Trigger
  <2> USE <1>1 DEF Trigger
  <2>1. ControlTypes'
    BY DEF ControlTypes, Requests
  <2>2. BodyTypes'
    <3>1. Content \subseteq 1..body
      BY DEF BodyTypes, Content
    <3> QED BY <3>1 DEF BodyTypes
  <2>3. PollType'
    BY DEF PollType
  <2>4. FirstRead'
    BY DEF FirstRead, Unsent, Preparing, Requests
  <2>5. Handed'
    BY DEF Handed, BodyTypes, ControlTypes
  <2>6. Unsent'
    BY DEF Unsent, Preparing, Requests
  <2>7. WholeBodySent'
    BY DEF WholeBodySent, Sent, FullRead, Unsent, FirstRead, BodyTypes, Preparing, Requests,
      Handed, Content, Smaller
  <2> QED BY <2>1, <2>2, <2>3, <2>4, <2>5, <2>6, <2>7
<1>2. CASE NotFound \/ FallbackQuery
  <2> USE <1>2 DEF NotFound, FallbackQuery
  <2>1. ControlTypes'
    BY DEF ControlTypes, Requests
  <2>2. BodyTypes'
    <3>1. 1..payloadLength \subseteq 1..body
      BY DEF BodyTypes
    <3> QED BY <3>1 DEF BodyTypes
  <2>3. PollType'
    BY DEF PollType
  <2>4. FirstRead'
    BY DEF FirstRead, Unsent, Preparing, Requests
  <2>5. Handed'
    BY DEF Handed, BodyTypes, ControlTypes
  <2>6. Unsent'
    BY DEF Unsent, Preparing, Requests
  <2>7. WholeBodySent'
    BY DEF WholeBodySent, Sent, FullRead, Unsent, FirstRead, BodyTypes, Preparing, Requests,
      Smaller
  <2> QED BY <2>1, <2>2, <2>3, <2>4, <2>5, <2>6, <2>7
<1>3. CASE Sleep \/ QueryDone \/ Fetch
  <2> USE <1>3 DEF Sleep, QueryDone, Fetch
  <2>1. ControlTypes'
    BY DEF ControlTypes, Requests
  <2>2. BodyTypes'
    BY DEF BodyTypes
  <2>3. PollType'
    BY DEF PollType
  <2>4. FirstRead'
    BY DEF FirstRead, Unsent, Preparing, Requests
  <2>5. Handed'
    BY DEF Handed, BodyTypes, ControlTypes
  <2>6. Unsent'
    BY DEF Unsent, Preparing, Requests
  <2>7. WholeBodySent'
    BY DEF WholeBodySent, Sent, FullRead, Unsent, FirstRead, BodyTypes, Preparing, Requests
  <2> QED BY <2>1, <2>2, <2>3, <2>4, <2>5, <2>6, <2>7
<1>4. CASE Poll
  <2> USE <1>4 DEF Poll
  <2>1. ControlTypes'
    BY DEF ControlTypes, Requests
  <2>2. BodyTypes'
    BY DEF BodyTypes
  <2>3. PollType'
    BY DEF PollType, NextPoll, Smaller
  <2>4. FirstRead'
    BY DEF FirstRead, Unsent, Preparing, Requests
  <2>5. Handed'
    BY DEF Handed, BodyTypes, ControlTypes
  <2>6. Unsent'
    BY DEF Unsent, Preparing, Requests
  <2>7. WholeBodySent'
    BY DEF WholeBodySent, Sent, FullRead, Unsent, FirstRead, BodyTypes, Preparing, Requests
  <2> QED BY <2>1, <2>2, <2>3, <2>4, <2>5, <2>6, <2>7
<1>5. CASE Fail \/ Close \/ Cancel
  <2> USE <1>5 DEF Fail, Close, Cancel
  <2>1. ControlTypes'
    BY DEF ControlTypes, Requests
  <2>2. BodyTypes'
    BY DEF BodyTypes
  <2>3. PollType'
    BY DEF PollType
  <2>4. FirstRead'
    BY DEF FirstRead, Unsent, Preparing, Requests
  <2>5. Handed'
    BY DEF Handed, BodyTypes, ControlTypes
  <2>6. Unsent'
    BY DEF Unsent, Preparing, Requests
  <2>7. WholeBodySent'
    BY DEF WholeBodySent, Sent, FullRead, Unsent, FirstRead, BodyTypes, Preparing, Requests
  <2> QED BY <2>1, <2>2, <2>3, <2>4, <2>5, <2>6, <2>7
<1> QED BY <1>1, <1>2, <1>3, <1>4, <1>5

LEMMA QueryStep == QInv /\ [Next]_vars => QInv'
<1> SUFFICES ASSUME QInv, [Next]_vars PROVE QInv'
  OBVIOUS
<1>1. CASE Next
  BY <1>1, BodySteps, QuerySteps DEF Next
<1>2. CASE UNCHANGED vars
  <2> USE <1>2 DEF vars, inputVars, uploadVars, queryVars, QInv, QueryTypeOK
  <2>1. ControlTypes'
    BY DEF ControlTypes
  <2>2. BodyTypes'
    BY DEF BodyTypes
  <2>3. PollType'
    BY DEF PollType
  <2>4. FirstRead'
    BY DEF FirstRead
  <2>5. Handed'
    BY DEF Handed
  <2>6. Unsent'
    BY DEF Unsent
  <2>7. WholeBodySent'
    BY DEF WholeBodySent, Sent, FullRead
  <2> QED BY <2>1, <2>2, <2>3, <2>4, <2>5, <2>6, <2>7
<1> QED BY <1>1, <1>2

THEOREM QueryInvariant == Spec => []QInv
BY QueryInit, QueryStep, PTL DEF Spec

\* The variables of a Query keep their types, and the polls their interval.
THEOREM QueryTypeCorrect == Spec => []QueryTypeOK
<1>1. QInv => QueryTypeOK
  BY DEF QInv
<1> QED BY <1>1, QueryInvariant, PTL

\* Whatever the sizes are, the device is sent the whole body of a request whose first Read
\* was not short.
THEOREM QueryWholeBodySent == Spec => []WholeBodySent
<1>1. QInv => WholeBodySent
  BY DEF QInv
<1> QED BY <1>1, QueryInvariant, PTL

\* Uploads run while the body is split or waited for, and after a return that did not wait.
Uploading ==
    running # {} => pc \in {"split", "wait"} \/ (pc = "returned" /\ result = "unread")

\* No part is still being uploaded after Query returned, unless the body could not be read to
\* its end.
THEOREM QueryNoOrphanUpload == Spec => []NoOrphanUpload
<1>1. Init => Uploading
  BY DEF Init, Uploading
<1>2. Uploading /\ [Next]_vars => Uploading'
  <2> SUFFICES ASSUME Uploading, [Next]_vars PROVE Uploading'
    OBVIOUS
  <2> USE DEF Uploading, Goto, Return, Answered, inputVars, uploadVars, queryVars
  <2>1. CASE Read \/ CreateMultipart \/ CreateObject \/ ReadObject \/ UploadObject
    <3>1. pc \in {"read", "create", "create_one", "object", "put"} /\ running' = running
      BY <2>1 DEF Read, CreateMultipart, CreateObject, ReadObject, UploadObject
    <3> QED BY <3>1
  <2>2. CASE ReadPart
    BY <2>2 DEF ReadPart
  <2>3. CASE Wait
    BY <2>3 DEF Wait, AllEnded
  <2>4. CASE \E p \in running : Uploaded(p) \/ UploadFails(p)
    BY <2>4 DEF Uploaded, UploadFails, UploadEnds
  <2>5. CASE Trigger \/ NotFound \/ FallbackQuery \/ Sleep \/ Poll \/ QueryDone \/ Fetch \/ Fail
             \/ Close \/ Cancel
    BY <2>5 DEF Trigger, NotFound, FallbackQuery, Sleep, Poll, QueryDone, Fetch, Fail, Requests,
      Close, Cancel
  <2>6. CASE UNCHANGED vars
    BY <2>6 DEF vars
  <2> QED BY <2>1, <2>2, <2>3, <2>4, <2>5, <2>6 DEF Next
<1>3. Uploading => NoOrphanUpload
  BY DEF Uploading, NoOrphanUpload
<1> QED BY <1>1, <1>2, <1>3, PTL DEF Spec
=============================================================================
