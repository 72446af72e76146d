---------------------------- MODULE ObjectStore ----------------------------
(***************************************************************************)
(* StorageBase and its providers: MinIO, S3 and OSS upload an object in    *)
(* one request to a bucket they make when it is missing, Azure SPN creates *)
(* a file, appends and flushes, with retries, and the local provider       *)
(* writes a file and then its metadata.  Every stage is a thread of its    *)
(* own, between which other callers run.  AzureSasStorage is left out: the *)
(* factory calls its constructor with an argument it does not have.        *)
(***************************************************************************)
EXTENDS Naturals

CONSTANTS
    ObjCalls,       \* calls, numbered in the order they arrive
    ObjAttempts,    \* ATTEMPT_TIME
    NoObject, Partial, Torn,  \* content: absent, created but empty, of two puts
    MaxObjFaults    \* bound on requests that fail

\* What is stored of a call is told from no object and from parts of one.
ASSUME ObjectAssumption ==
    /\ ObjCalls \subseteq Nat
    /\ NoObject \notin ObjCalls \cup {Partial, Torn} /\ {Partial, Torn} \cap ObjCalls = {}

VARIABLES
    objProvider,
    objBucket,    \* the bucket exists
    objData,      \* content of the object and of the probe of health_check
    objMeta,      \* local: the .meta file of each
    objCall,      \* per call: what it does, where it is, what it answers
    objLast,      \* history: what the last put or delete that succeeded left
    objRaced,     \* history: written by two calls at once
    objHurt,      \* history: a write to it failed
    objFaults

objVars == <<objProvider, objBucket, objData, objMeta, objCall, objLast, objRaced, objHurt, objFaults>>

Bucketed == {"minio", "s3", "oss"}
Objects == {"file", "probe"}
NoObjCall == [op |-> "none", obj |-> "file", at |-> "new", tries |-> 0, answer |-> "none", failed |-> FALSE, got |-> NoObject]

\* A mutant: an error reads as absence, as elsewhere.
S3Error_Absent(op, err) == IF op = "put" THEN "raise" ELSE IF op = "get" THEN "none" ELSE "false"
\* What a call answers to a request that was refused or that broke off.
S3Error(op, err) == IF op = "delete" /\ err = "refused" THEN "false" ELSE "raise"
OssError(op, err) ==
    CASE op = "put" \/ (op \in {"get", "exists"} /\ err = "refused") -> "raise"
      [] op = "get" /\ err = "broken" -> "none"
      [] OTHER -> "false"
QuietError(op) == IF op = "put" THEN "raise" ELSE IF op = "get" THEN "none" ELSE "false"
ErrorAnswer(op, err) ==
    CASE objProvider = "s3" -> S3Error(op, err)
      [] objProvider = "oss" -> OssError(op, err)
      [] OTHER -> QuietError(op)

\* What the write of a call does to its object: health_check puts and deletes.
Writes(at) == at \in {"bucket", "make", "upload", "create", "append", "flush", "open", "write", "meta",
                      "delete", "unlink"}
InWrite(c, o) ==
    /\ objCall[c].obj = o
    /\ Writes(objCall[c].at) \/ (objCall[c].op = "health" /\ objCall[c].at = "read")
Writers(o, but) == {c \in ObjCalls \ {but} : InWrite(c, o)}

\* Where a put starts, in a bucket, a file system or a directory.
PutStart == IF objProvider \in Bucketed THEN "bucket" ELSE IF objProvider = "spn" THEN "create" ELSE "open"
Goto(c, at) == objCall' = [objCall EXCEPT ![c].at = at]
Answer(c, a) == objCall' = [objCall EXCEPT ![c].at = "done", ![c].answer = a]
Arriving(c) == objCall[c].at = "new" /\ \A d \in ObjCalls : d < c => objCall[d].at # "new"
NoFault == UNCHANGED objFaults
ObjFault == objFaults < MaxObjFaults /\ objFaults' = objFaults + 1
KeepObjects == UNCHANGED <<objData, objMeta, objLast, objHurt>>
Store(o, content) == objData' = [objData EXCEPT ![o] = content]

ObjInit ==
    /\ objProvider \in Bucketed \cup {"spn", "local"}
    /\ objBucket \in (IF objProvider \in Bucketed THEN BOOLEAN ELSE {TRUE})
    /\ objData = [o \in Objects |-> NoObject] /\ objMeta = objData /\ objLast = objData
    /\ objCall = [c \in ObjCalls |-> NoObjCall]
    /\ objRaced = {} /\ objHurt = {} /\ objFaults = 0
-----------------------------------------------------------------------------
\* A call connects first, outside the part that answers errors: without a
\* connection all of them raise.  MinIO and S3 check their health with a list
\* of buckets, the others with a probe.
ObjBegin(c) == \E op \in {"put", "get", "exists", "delete", "health"} :
    LET o == IF op = "health" THEN "probe" ELSE "file"
        at == CASE op = "put" -> PutStart
                [] op = "delete" -> "delete"
                [] op = "health" -> IF objProvider \in {"minio", "s3"} THEN "ping" ELSE PutStart
                [] OTHER -> "read"
        call == [NoObjCall EXCEPT !.op = op, !.obj = o, !.at = at]
    IN  /\ Arriving(c) /\ UNCHANGED <<objProvider, objBucket>> /\ KeepObjects
        /\ \/ objCall' = [objCall EXCEPT ![c] = call] /\ NoFault
           \/ /\ objProvider # "local" /\ ObjFault
              /\ objCall' = [objCall EXCEPT ![c] = [call EXCEPT !.at = "done", !.answer = "raise", !.failed = TRUE]]
        /\ objRaced' = IF Writes(at) /\ Writers(o, c) # {} THEN objRaced \cup {o} ELSE objRaced

\* _ensure_bucket_exists: of two puts that find no bucket, one may be refused.
\* Its failure is a failure of the put, before anything is written.
EnsureBucket(c) ==
    /\ UNCHANGED <<objProvider, objRaced>> /\ NoFault
    /\ \/ /\ objCall[c].at = "bucket" /\ Goto(c, IF objBucket THEN "upload" ELSE "make")
          /\ UNCHANGED objBucket /\ KeepObjects
       \/ /\ objCall[c].at = "make" /\ objBucket' = TRUE /\ KeepObjects
          /\ \/ Goto(c, "upload")
             \/ /\ objBucket
                /\ objCall' = [objCall EXCEPT ![c].at = "done", ![c].failed = TRUE,
                                 ![c].answer = IF objCall[c].op = "health" THEN "false" ELSE "raise"]

\* The object is written: a put is done, a probe is looked for.
Wrote(c) ==
    /\ IF objCall[c].op = "health" THEN Goto(c, "read") ELSE Answer(c, "ok")
    /\ objLast' = [objLast EXCEPT ![objCall[c].obj] = c]
    /\ objHurt' = objHurt \ {objCall[c].obj}

\* MinIO, S3, OSS: one request.
Upload(c) ==
    /\ objCall[c].at = "upload" /\ Store(objCall[c].obj, c) /\ Wrote(c)
    /\ UNCHANGED <<objProvider, objBucket, objMeta, objRaced>> /\ NoFault

\* Azure SPN: create_file empties the file, flush_data shows what was appended;
\* if others write meanwhile it fails or shows what it finds.
SpnPut(c) ==
    LET o == objCall[c].obj IN
    /\ UNCHANGED <<objProvider, objBucket, objMeta, objRaced>> /\ NoFault
    /\ \/ /\ objCall[c].at = "create" /\ Store(o, Partial) /\ Goto(c, "append") /\ UNCHANGED <<objLast, objHurt>>
       \/ /\ objCall[c].at = "append" /\ Goto(c, "flush") /\ UNCHANGED <<objData, objLast, objHurt>>
       \/ /\ objCall[c].at = "flush" /\ objData[o] # NoObject
          /\ (Store(o, c) \/ (o \in objRaced /\ Store(o, Torn))) /\ Wrote(c)
       \/ /\ objCall[c].at = "flush" /\ o \in objRaced
          /\ Answer(c, IF objCall[c].op = "health" THEN "false" ELSE "raise")
          /\ objHurt' = objHurt \cup {o} /\ UNCHANGED <<objData, objLast>>

\* Local: the file is emptied and filled, then the metadata is replaced.
LocalPut(c) ==
    LET o == objCall[c].obj IN
    /\ UNCHANGED <<objProvider, objBucket, objRaced>> /\ NoFault
    /\ \/ /\ objCall[c].at = "open" /\ Store(o, Partial) /\ Goto(c, "write") /\ UNCHANGED <<objMeta, objLast, objHurt>>
       \/ /\ objCall[c].at = "write" /\ (Store(o, c) \/ (o \in objRaced /\ (Store(o, Torn) \/ UNCHANGED objData)))
          /\ UNCHANGED objMeta
          /\ IF objCall[c].op = "health" THEN Wrote(c) ELSE Goto(c, "meta") /\ UNCHANGED <<objLast, objHurt>>
       \/ objCall[c].at = "meta" /\ objMeta' = [objMeta EXCEPT ![o] = c] /\ Wrote(c) /\ UNCHANGED objData
-----------------------------------------------------------------------------
\* get, exists, and the look for the probe.
Read(c) ==
    LET o == objCall[c].obj
        there == objData[o] # NoObject
        found == IF there THEN "true" ELSE "false"
        read == [objCall[c] EXCEPT !.at = "done", !.got = objData[o], !.answer = found]
    IN  /\ objCall[c].at = "read" /\ UNCHANGED <<objProvider, objBucket, objRaced>> /\ NoFault /\ KeepObjects
        /\ objCall' = [objCall EXCEPT ![c] =
                        CASE read.op = "health" -> [read EXCEPT !.at = "delete"]
                          [] read.op = "get" /\ ~there -> [read EXCEPT !.answer = "none"]
                          [] OTHER -> read]
HealthList(c) ==
    /\ objCall[c].at = "ping" /\ Answer(c, "true") /\ KeepObjects
    /\ UNCHANGED <<objProvider, objBucket, objRaced>> /\ NoFault

\* A mutant: the metadata stays.
Deleted_KeepsMeta(c) == /\ IF objCall[c].op = "health" THEN Goto(c, "done") ELSE Answer(c, "true")
                        /\ UNCHANGED objMeta
\* The object is gone: the local provider removes its metadata too.
Deleted(c) ==
    /\ IF objCall[c].op = "health" THEN Goto(c, "done") ELSE Answer(c, "true")
    /\ objMeta' = [objMeta EXCEPT ![objCall[c].obj] = NoObject]
\* A file that is not there is an error of Azure SPN, and of the local provider
\* if it was there when it looked.
DeleteObj(c) ==
    LET o == objCall[c].obj
        gone == objData[o] = NoObject
        done == /\ Store(o, NoObject) /\ Deleted(c)
                /\ objLast' = [objLast EXCEPT ![o] = NoObject] /\ objHurt' = objHurt \ {o}
        fail == /\ UNCHANGED <<objData, objMeta, objLast, objHurt>>
                /\ IF objCall[c].op = "health" /\ objProvider = "spn" THEN Goto(c, "done") ELSE Answer(c, "false")
    IN  /\ UNCHANGED <<objProvider, objBucket, objRaced>> /\ NoFault
        /\ \/ objCall[c].at = "delete" /\ objProvider \in Bucketed /\ done
           \/ objCall[c].at = "delete" /\ objProvider = "spn" /\ (IF gone THEN fail ELSE done)
           \/ /\ objCall[c].at = "delete" /\ objProvider = "local"
              /\ IF gone /\ objCall[c].op = "delete" THEN done ELSE Goto(c, "unlink") /\ KeepObjects
           \/ objCall[c].at = "unlink" /\ (IF gone THEN fail ELSE done)

\* _should_retry: an Azure SPN request that broke off, until the attempts are spent.
Retried(c, err) == objProvider = "spn" /\ err = "broken" /\ objCall[c].tries + 1 < ObjAttempts

\* A request fails, before or after it took effect.  A failed probe is an
\* unhealthy store, whatever it could not do, except delete the probe.
ObjFails(c) == \E err \in {"refused", "broken"} :
    LET call == objCall[c]
        start == IF call.op \in {"put", "health"} /\ call.at \in {"create", "append", "flush"} THEN "create" ELSE call.at
        final == IF call.op # "health" THEN ErrorAnswer(call.op, err)
                 ELSE IF call.at \in {"delete", "unlink"} /\ objProvider # "local" THEN call.answer ELSE "false"
        effects == CASE call.at \in {"upload", "flush"} -> {objData[call.obj], c}
                     [] call.at \in {"create", "open", "write"} -> {objData[call.obj], Partial}
                     [] call.at \in {"delete", "unlink"} -> {objData[call.obj], NoObject}
                     [] OTHER -> {objData[call.obj]}
    IN  /\ call.at \notin {"new", "done", "make"} /\ (objProvider = "local" => call.at # "read") /\ ObjFault
        /\ objCall' = [objCall EXCEPT ![c] =
                         IF Retried(c, err) THEN [call EXCEPT !.at = start, !.tries = call.tries + 1]
                                            ELSE [call EXCEPT !.at = "done", !.answer = final, !.failed = TRUE]]
        /\ \E content \in effects : Store(call.obj, content)
        /\ objHurt' = IF Writes(call.at) /\ call.at # "bucket" THEN objHurt \cup {call.obj} ELSE objHurt
        /\ UNCHANGED <<objProvider, objBucket, objMeta, objLast, objRaced>>

ObjNext == \E c \in ObjCalls :
    ObjBegin(c) \/ EnsureBucket(c) \/ Upload(c) \/ SpnPut(c) \/ LocalPut(c) \/ Read(c) \/ HealthList(c) \/ DeleteObj(c) \/ ObjFails(c)
ObjSpec == ObjInit /\ [][ObjNext]_objVars
-----------------------------------------------------------------------------
\* An object that no two calls wrote at once and whose last write succeeded is
\* what that write left, and its metadata with it (local_file_connect.py:50-135,
\* azure_spn_connect.py:44-125, minio_connect.py:51-135).
LastWriteStays ==
    \A o \in Objects \ (objRaced \cup objHurt) :
        (\A c \in ObjCalls : ~InWrite(c, o)) =>
            /\ objData[o] = objLast[o]
            /\ objProvider = "local" /\ o = "file" => objMeta[o] = objLast[o]

\* What a get returns was put whole by one call, unless the provider writes in
\* several stages and a write was not finished.  S3 never takes an error for
\* absence: of the others only a failed request reads as a missing object.
ReadsAreWhole ==
    \A c \in ObjCalls : objCall[c].at = "done" /\ objCall[c].op \in {"get", "exists"} =>
        /\ objCall[c].got \in {Partial, Torn} => objProvider \in {"spn", "local"}
        /\ objCall[c].answer \in {"none", "false"} =>
             objCall[c].got = NoObject /\ (objCall[c].failed => objProvider # "s3")

\* A store whose requests all succeed is healthy, unless two checks share the
\* probe; of two that make the bucket at once, one request is refused.
HealthIsHonest ==
    \A c \in ObjCalls : objCall[c].at = "done" /\ objCall[c].op = "health" /\ objCall[c].answer = "false" =>
        objCall[c].failed \/ "probe" \in objRaced

ObjectsSound == LastWriteStays /\ ReadsAreWhole /\ HealthIsHonest
=============================================================================
