------------------------------- MODULE Loader -------------------------------
(***************************************************************************)
(* The S3 resource loader of internal/core/loader.go over a bucket of      *)
(* pkg/aws/s3.go: uploads and downloads, by any number of workers at once, *)
(* of a prefix or an object from or to a directory or a file.  A worker    *)
(* with several calls is several clients.                                  *)
(*                                                                         *)
(* A key is a directory of the bucket and a name in it; prefixes are one   *)
(* level deep.  Of an object it matters only whose call wrote it, and of a *)
(* file that is downloaded how much of its object it has.  Both callers in *)
(* internal/core/task.go pass remove = true and no metadata.               *)
(***************************************************************************)
EXTENDS Naturals

CONSTANTS Client,    \* calls of the loader
          Prefix,    \* the prefixes at the root of the bucket
          Root,      \* the root itself
          Name,      \* what follows the last slash of a key or a path
          Present,   \* the keys of the objects that are there at first
          Before,    \* who wrote those
          Nobody,    \* who wrote an object that is not there
          MaxFaults  \* bound: requests that fail, clients that die

Key == (Prefix \cup {Root}) \X Name

ASSUME LoaderAssumption ==
  /\ Root \notin Prefix
  /\ Present \subseteq Key
  /\ Before \notin Client
  /\ Nobody \notin Client \cup {Before}
  /\ MaxFaults \in Nat

\* What a call asks for.  If pfx, the resource is the prefix of key, and the
\* name of key that of the local path; it is key itself otherwise.  The local
\* path is a directory with some files, a file, or not there.  Of a directory
\* that is downloaded to, files are those that are there already.
Request ==
  {q \in [op : {"upload", "download"}, pfx : BOOLEAN, key : Key,
          path : {"dir", "file", "none"}, files : SUBSET Name] :
     /\ q.pfx => q.key[1] \in Prefix
     /\ q.path # "dir" => q.files = {}}

VARIABLES bucket,  \* who wrote each object
          call,    \* what each client has asked for
          pc,      \* what it does next
          todo,    \* keys it has yet to send or fetch
          erred,   \* one of those before it failed
          local,   \* the files at the path of a download
          faults   \* faults so far

vars == <<bucket, call, pc, todo, erred, local, faults>>

Uploading == {"clear", "walk", "send", "look", "delete", "open", "put"}
Downloading == {"list", "create", "fetch"}
Ended == {"stored", "fetched", "failed", "dead"}

\* A file that is downloaded to is there from before, untouched ("old") or open
\* ("kept"); or it was made for its object ("empty").  Then it has its object
\* whole, or it is torn: with part of it, or with an older file's tail behind it.
File == {"none", "old", "kept", "empty", "torn", "whole"}

\* File n is at the local path of a download before it begins.
Existed(c, n) ==
  /\ call[c].op = "download"
  /\ n \in call[c].files \/ (call[c].path = "file" /\ n = call[c].key[2])

TypeOK ==
  /\ bucket \in [Key -> Client \cup {Before, Nobody}]
  /\ call \in [Client -> Request]
  /\ pc \in [Client -> {"idle"} \cup Uploading \cup Downloading \cup Ended]
  /\ todo \in [Client -> SUBSET Key]
  /\ erred \in [Client -> BOOLEAN]
  /\ local \in [Client -> [Name -> File]]
  /\ faults \in 0..MaxFaults

Init ==
  /\ bucket = [k \in Key |-> IF k \in Present THEN Before ELSE Nobody]
  /\ call \in [Client -> Request]
  /\ pc = [c \in Client |-> "idle"]
  /\ todo = [c \in Client |-> {}]
  /\ erred = [c \in Client |-> FALSE]
  /\ local = [c \in Client |->
                [n \in Name |-> IF Existed(c, n) THEN "old" ELSE "none"]]
  /\ faults = 0
-----------------------------------------------------------------------------
Goto(c, step) == pc' = [pc EXCEPT ![c] = step]

Stored(k) == bucket[k] # Nobody

Write(k, who) == bucket' = [bucket EXCEPT ![k] = who]

Fault == faults < MaxFaults /\ faults' = faults + 1

\* A request for key k fails: it took place, or it did not.
Lost(k, who) == Fault /\ (Write(k, who) \/ UNCHANGED bucket)

\* Mutated form of Listing: the depth is compared one off.
ListingOneOff(depth) ==
  {k \in Key : Stored(k) /\ (k[1] = Root \/ depth > 0)}

\* ListObjects: the objects at most depth levels deep, of the whole bucket, for
\* the prefix is not passed on; none at all if the depth is 0.
Listing(depth) ==
  {k \in Key :
     Stored(k) /\ (IF k[1] = Root THEN depth > 0 ELSE depth > 1)}
-----------------------------------------------------------------------------
(***************************************************************************)
(* Upload: a directory into a prefix, or a file into an object.  To archive*)
(* a directory in an object is not implemented.                            *)
(***************************************************************************)
Upload(c) ==
  /\ pc[c] = "idle" /\ call[c].op = "upload"
  /\ \/ call[c].path # "dir" /\ Goto(c, "look")
     \/ call[c].path = "dir" /\ call[c].pfx /\ Goto(c, "clear")
     \/ call[c].path = "dir" /\ ~call[c].pfx /\ Goto(c, "failed")
  /\ UNCHANGED <<bucket, call, todo, erred, local, faults>>

\* DeletePrefix with the Depth that Upload leaves out: what it lists is deleted
\* in batches, and it lists nothing, without a request.
DeletePrefix(c) ==
  /\ pc[c] = "clear"
  /\ bucket' = [k \in Key |-> IF k \in Listing(0) THEN Nobody ELSE bucket[k]]
  /\ Goto(c, "walk")
  /\ UNCHANGED <<call, todo, erred, local, faults>>

\* Mutated form of Walk: the paths are not made keys of the prefix.
WalkPaths(c) ==
  /\ pc[c] = "walk"
  /\ todo' = [todo EXCEPT ![c] = call[c].files]
  /\ Goto(c, "send")
  /\ UNCHANGED <<bucket, call, erred, local, faults>>

\* directoryToUploadIterator opens every file.
Walk(c) ==
  /\ pc[c] = "walk"
  /\ todo' = [todo EXCEPT ![c] = {call[c].key[1]} \X call[c].files]
  /\ Goto(c, "send")
  /\ UNCHANGED <<bucket, call, erred, local, faults>>

\* Mutated form of Send: the error of a file is forgotten.
SendForgets(c) ==
  /\ pc[c] = "send"
  /\ \E k \in todo[c] :
       /\ todo' = [todo EXCEPT ![c] = @ \ {k}]
       /\ (Write(k, c) /\ UNCHANGED faults) \/ Lost(k, c)
  /\ UNCHANGED <<call, pc, erred, local>>

\* UploadWithIterator sends the files one by one, those after a failed one too.
Send(c) ==
  /\ pc[c] = "send"
  /\ \E k \in todo[c] :
       /\ todo' = [todo EXCEPT ![c] = @ \ {k}]
       /\ \/ Write(k, c) /\ UNCHANGED <<erred, faults>>
          \/ Lost(k, c) /\ erred' = [erred EXCEPT ![c] = TRUE]
  /\ UNCHANGED <<call, pc, local>>

SendEnds(c) ==
  /\ pc[c] = "send" /\ todo[c] = {}
  /\ Goto(c, IF erred[c] THEN "failed" ELSE "stored")
  /\ UNCHANGED <<bucket, call, todo, erred, local, faults>>

\* DeleteIfExists: HeadObject, then DeleteObject.
Look(c) ==
  /\ pc[c] = "look"
  /\ Goto(c, IF Stored(call[c].key) THEN "delete" ELSE "open")
  /\ UNCHANGED <<bucket, call, todo, erred, local, faults>>

Delete(c) ==
  /\ pc[c] = "delete"
  /\ \/ Write(call[c].key, Nobody) /\ Goto(c, "open") /\ UNCHANGED faults
     \/ Lost(call[c].key, Nobody) /\ Goto(c, "failed")
  /\ UNCHANGED <<call, todo, erred, local>>

\* Only now it is seen whether there is a file to upload.
Open(c) ==
  /\ pc[c] = "open"
  /\ Goto(c, IF call[c].path = "file" THEN "put" ELSE "failed")
  /\ UNCHANGED <<bucket, call, todo, erred, local, faults>>

\* Mutated form of Put: an upload that fails is taken for one that succeeds.
PutAnyway(c) ==
  /\ pc[c] = "put"
  /\ Goto(c, "stored")
  /\ \/ Write(call[c].key, c) /\ UNCHANGED faults
     \/ Lost(call[c].key, c)
  /\ UNCHANGED <<call, todo, erred, local>>

Put(c) ==
  /\ pc[c] = "put"
  /\ \/ Write(call[c].key, c) /\ Goto(c, "stored") /\ UNCHANGED faults
     \/ Lost(call[c].key, c) /\ Goto(c, "failed")
  /\ UNCHANGED <<call, todo, erred, local>>
-----------------------------------------------------------------------------
(***************************************************************************)
(* Download: a prefix or an object into a directory, or an object into a   *)
(* file, which need not exist.                                             *)
(***************************************************************************)
Download(c) ==
  /\ pc[c] = "idle" /\ call[c].op = "download"
  /\ \/ /\ ~call[c].pfx
        /\ todo' = [todo EXCEPT ![c] = {call[c].key}]
        /\ Goto(c, "create")
     \/ /\ call[c].pfx
        /\ Goto(c, IF call[c].path = "dir" THEN "list" ELSE "failed")
        /\ UNCHANGED todo
  /\ UNCHANGED <<bucket, call, erred, local, faults>>

\* DownloadPrefix, always called with depth 1.
List(c) ==
  /\ pc[c] = "list"
  /\ todo' = [todo EXCEPT ![c] = Listing(1)]
  /\ Goto(c, "create")
  /\ UNCHANGED <<bucket, call, erred, local, faults>>

\* A file is opened for each object before any is fetched: made if it is not
\* there, and not truncated if it is.
Opened(file) == IF file = "none" THEN "empty" ELSE "kept"

Create(c) ==
  /\ pc[c] = "create"
  /\ local' = [local EXCEPT ![c] =
                 [n \in Name |-> IF \E k \in todo[c] : k[2] = n
                                   THEN Opened(local[c][n]) ELSE local[c][n]]]
  /\ Goto(c, "fetch")
  /\ UNCHANGED <<bucket, call, todo, erred, faults>>

\* Mutated form of Fetch: an object that is not there any more is skipped.
FetchSkips(c) ==
  /\ pc[c] = "fetch"
  /\ \E k \in todo[c] :
       /\ todo' = [todo EXCEPT ![c] = @ \ {k}]
       /\ local' = IF Stored(k) THEN [local EXCEPT ![c][k[2]] = "whole"]
                   ELSE local
  /\ UNCHANGED <<bucket, call, pc, erred, faults>>

\* The objects are fetched one by one, those after a failed one too.  Behind a
\* shorter object an older file keeps its tail.
FetchObject(c, k) ==
  /\ Stored(k)
  /\ \/ local' = [local EXCEPT ![c][k[2]] = "whole"]
     \/ /\ local[c][k[2]] = "kept"
        /\ local' = [local EXCEPT ![c][k[2]] = "torn"]
  /\ UNCHANGED <<erred, faults>>

\* An object that was listed may be gone, and the fetch of one break off.
MissObject(c, k) ==
  /\ \/ ~Stored(k) /\ UNCHANGED <<local, faults>>
     \/ /\ Fault
        /\ UNCHANGED local \/ local' = [local EXCEPT ![c][k[2]] = "torn"]
  /\ erred' = [erred EXCEPT ![c] = TRUE]

Fetch(c) ==
  /\ pc[c] = "fetch"
  /\ \E k \in todo[c] :
       /\ todo' = [todo EXCEPT ![c] = @ \ {k}]
       /\ FetchObject(c, k) \/ MissObject(c, k)
  /\ UNCHANGED <<bucket, call, pc>>

FetchEnds(c) ==
  /\ pc[c] = "fetch" /\ todo[c] = {}
  /\ Goto(c, IF erred[c] THEN "failed" ELSE "fetched")
  /\ UNCHANGED <<bucket, call, todo, erred, local, faults>>
-----------------------------------------------------------------------------
\* A call that changes nothing in the bucket fails, be it to the file system;
\* the one that lists the root panics with it.
CallFails(c) ==
  /\ Fault
  /\ \/ /\ pc[c] \in {"idle", "walk", "look", "open", "create"}
        /\ Goto(c, "failed")
     \/ pc[c] = "list" /\ Goto(c, "dead")
  /\ UNCHANGED <<bucket, call, todo, erred, local>>

\* Its worker dies or exits.
Die(c) ==
  /\ pc[c] \in Uploading \cup Downloading
  /\ Fault
  /\ Goto(c, "dead")
  /\ UNCHANGED <<bucket, call, todo, erred, local>>

Next ==
  \E c \in Client :
    \/ Upload(c) \/ DeletePrefix(c) \/ Walk(c) \/ Send(c) \/ SendEnds(c)
    \/ Look(c) \/ Delete(c) \/ Open(c) \/ Put(c)
    \/ Download(c) \/ List(c) \/ Create(c) \/ Fetch(c) \/ FetchEnds(c)
    \/ CallFails(c) \/ Die(c)

Spec == Init /\ [][Next]_vars
-----------------------------------------------------------------------------
(***************************************************************************)
(* Properties.                                                             *)
(***************************************************************************)

Uploads(c) == call[c].op = "upload"

\* The keys the upload of client c is about.
Targets(c) ==
  IF call[c].pfx /\ call[c].path = "dir"
    THEN {call[c].key[1]} \X call[c].files ELSE {call[c].key}

\* The step is one of client c's.
Moves(c) == pc'[c] # pc[c] \/ todo'[c] # todo[c]

\* An upload touches no object but those it is about itself: the deletion that
\* is to make way for it reaches neither the root of the bucket nor other
\* prefixes, although the listing it rests on is given no prefix.
OnlyTargets ==
  [][\A k \in Key :
       bucket'[k] # bucket[k] =>
         \E c \in Client : Uploads(c) /\ Moves(c) /\ k \in Targets(c)]_vars

\* Object k is gone because an upload has deleted it and has not, or not yet,
\* put the new one: the delete comes before the file is opened and sent.
Removed(k) ==
  \E c \in Client :
    /\ Uploads(c) /\ call[c].path # "dir" /\ call[c].key = k
    /\ pc[c] \in {"open", "put", "failed", "dead"}

\* What is stored stays so, whoever uploads to the same key at once: an object
\* that was there at first, or that a call returned without an error for, is
\* absent only between the delete and the put of some upload of that key, or
\* after such an upload failed or died.
StoredStays ==
  \A k \in Key :
    /\ k \in Present \/ \E c \in Client : pc[c] = "stored" /\ k \in Targets(c)
    /\ bucket[k] = Nobody
    => Removed(k)

\* An upload that returned without an error has sent every file of its, even
\* if some were sent after one had failed: none of its keys is left with what
\* was there before.
StoredIsSent ==
  \A c \in Client :
    pc[c] = "stored" => \A k \in Targets(c) : bucket[k] # Before

\* A download that returned without an error has fetched all it listed, also if
\* uploads have deleted some of it since: no file it has opened is left as it
\* was, and one that it has made has its object whole.  A file that was there
\* may keep its tail, for it is not truncated.
FetchedIsWhole ==
  \A c \in Client, n \in Name :
    pc[c] = "fetched" =>
      /\ local[c][n] \notin {"empty", "kept"}
      /\ local[c][n] = "torn" => Existed(c, n)
=============================================================================
