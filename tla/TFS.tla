-------------------------------- MODULE TFS --------------------------------
(***************************************************************************)
(* The temporary file store of a generated server (templates/client.templ):*)
(* files come in by upload requests and by binary upstream responses, are  *)
(* written under a name ending in .inprogress and renamed when complete,   *)
(* and leave by a one-time download, by being forwarded upstream, or by    *)
(* the clean job.  Names (and the metadata kept for them in memory) are    *)
(* distinguished from the files they stand for: a handler that has opened  *)
(* a file keeps it, a handler that removes a name removes whatever file    *)
(* has it by then.                                                         *)
(*                                                                         *)
(* A file is two blocks; a block is known by the writer whose data it is.  *)
(* A system call is a step; the server may stop between any two.           *)
(***************************************************************************)
EXTENDS Integers, FiniteSets

CONSTANTS
  Uploaders,  \* requests to HandleTFSUpload
  Savers,     \* runs of SaveBinaryStream
  Getters,    \* requests to HandleTFSDownload, numbered in the order they come
  Forwarders, \* tool calls that forward a file
  Takers,     \* bound: so many downloads and forwarding calls there are
  Sources,    \* names of the files they forward, None for a file of another server
  Ids,        \* names of files
  IdOf,       \* the name each writer uses, and each forwarding call for its copy
  None

Writers == Uploaders \cup Savers

ASSUME TFSAssumption ==
  /\ Uploaders \cap Savers = {}
  /\ Writers \cap Forwarders = {}
  /\ IdOf \in [Writers \cup Forwarders -> Ids]
  /\ \A s \in Savers \cup Forwarders, w \in Writers \cup Forwarders :
       IdOf[s] = IdOf[w] => s = w  \* uuid.New()
  /\ Sources \subseteq {IdOf[w] : w \in Writers} \cup {None}
  /\ Getters \subseteq Nat /\ Takers \in Nat
  /\ None \notin Ids \cup Writers \cup Forwarders

Blocks == {1, 2}

\* A file is named after the writer, or forwarding call, whose open created it.
Files == Writers \cup Forwarders

\* Names that are answered; nobody is told the name of a copy.
Names == {IdOf[w] : w \in Writers}

VARIABLES
  dir,     \* the file each name stands for
  part,    \* the file each name's .inprogress name stands for
  data,    \* the blocks of each file
  old,     \* files last written longer ago than the clean job's TTL
  meta,    \* tfsDownloadMeta: whose name and content type are kept for a name
  writer,  \* progress of each writer, and the file it has open
  getter,  \* progress of each download
  forward, \* progress of each forwarding call
  clean,   \* the name the clean job is about to remove
  latest,  \* the file last put in place under each name
  crashed  \* the server has been restarted

fs == <<dir, part, data, old, latest>>
vars == <<dir, part, data, old, meta, writer, getter, forward, clean, latest, crashed>>

Empty == [b \in Blocks |-> None]

Init ==
  /\ dir = [i \in Ids |-> None]
  /\ part = [i \in Ids |-> None]
  /\ data = [f \in Files |-> Empty]
  /\ old = {}
  /\ meta = [i \in Ids |-> None]
  /\ writer = [w \in Writers |-> [pc |-> "idle", fd |-> None]]
  /\ getter = [g \in Getters |-> [pc |-> "idle", id |-> None, fd |-> None,
                                  got |-> Empty, after |-> {}]]
  /\ forward = [f \in Forwarders |-> [pc |-> "idle", id |-> None, fd |-> None,
                                      got |-> Empty, todo |-> {}]]
  /\ clean = None
  /\ latest = [i \in Ids |-> None]
  /\ crashed = FALSE

(***************************************************************************)
(* Writers: HandleTFSUpload and SaveBinaryStream.                          *)
(***************************************************************************)
WriterAt(w, from, to) ==
  /\ writer[w].pc = from
  /\ writer' = [writer EXCEPT ![w].pc = to]

\* Mutant: the data is written under the final name.
CreateInPlace(w) ==
  /\ writer[w].pc = "idle"
  /\ writer' = [writer EXCEPT ![w] = [pc |-> "write1", fd |-> w]]
  /\ part' = [part EXCEPT ![IdOf[w]] = w]
  /\ dir' = [dir EXCEPT ![IdOf[w]] = w]
  /\ latest' = [latest EXCEPT ![IdOf[w]] = w]
  /\ UNCHANGED <<data, old, meta, getter, forward, clean, crashed>>

\* Creating the .inprogress file empties one that is already there.
Create(w) ==
  LET there == part[IdOf[w]]
      file  == IF there = None THEN w ELSE there
  IN  /\ writer[w].pc = "idle"
      /\ writer' = [writer EXCEPT ![w] = [pc |-> "write1", fd |-> file]]
      /\ part' = [part EXCEPT ![IdOf[w]] = file]
      /\ data' = [data EXCEPT ![file] = Empty]
      /\ old' = old \ {file}
      /\ UNCHANGED <<dir, meta, getter, forward, clean, latest, crashed>>

Write(w, b) ==
  /\ WriterAt(w, IF b = 1 THEN "write1" ELSE "write2",
                 IF b = 1 THEN "write2" ELSE "rename")
  /\ data' = [data EXCEPT ![writer[w].fd][b] = w]
  /\ old' = old \ {writer[w].fd}
  /\ UNCHANGED <<dir, part, meta, getter, forward, clean, latest, crashed>>

\* The disk is full or the upstream breaks off: SaveBinaryStream removes what
\* it has written, HandleTFSUpload leaves it.
WriteFails(w) ==
  /\ writer[w].pc \in {"write1", "write2"}
  /\ writer' = [writer EXCEPT ![w].pc = "failed"]
  /\ part' = IF w \in Savers THEN [part EXCEPT ![IdOf[w]] = None] ELSE part
  /\ UNCHANGED <<dir, data, old, meta, getter, forward, clean, latest, crashed>>

\* Another upload of the same name may have renamed the file already.
Rename(w) ==
  LET id == IdOf[w]
  IN  /\ writer[w].pc = "rename"
      /\ part' = [part EXCEPT ![id] = None]
      /\ IF part[id] = None
           THEN WriterAt(w, "rename", "failed") /\ UNCHANGED <<dir, latest>>
           ELSE /\ WriterAt(w, "rename", "store")
                /\ dir' = [dir EXCEPT ![id] = part[id]]
                /\ latest' = [latest EXCEPT ![id] = part[id]]
      /\ UNCHANGED <<data, old, meta, getter, forward, clean, crashed>>

\* The metadata is stored after the file is in place, and the URL is answered.
StoreMeta(w) ==
  /\ WriterAt(w, "store", "answered")
  /\ meta' = [meta EXCEPT ![IdOf[w]] = w]
  /\ UNCHANGED <<fs, getter, forward, clean, crashed>>

(***************************************************************************)
(* HandleTFSDownload.                                                      *)
(***************************************************************************)
\* A request that has ended has no file open.
Ended(r, pc) == [r EXCEPT !.pc = pc, !.id = None, !.fd = None]

Delivered == {g \in Getters : getter[g].pc = "done" /\ getter[g].got # Empty}

\* Downloads and forwarding calls that have begun.
Begun == {g \in Getters : getter[g].pc # "idle"} \cup {f \in Forwarders : forward[f].pc # "idle"}

Begins(g) ==
  /\ getter[g].pc = "idle" /\ Cardinality(Begun) < Takers
  /\ \A h \in Getters : h < g => getter[h].pc # "idle"

\* Mutant: a missing file is not answered with 404.
OpenBlindly(g) ==
  /\ Begins(g)
  /\ \E id \in Names :
       getter' = [getter EXCEPT ![g] =
         [@ EXCEPT !.pc = "serve", !.id = id, !.fd = dir[id], !.after = Delivered]]
  /\ UNCHANGED <<fs, meta, writer, forward, clean, crashed>>

Open(g) ==
  /\ Begins(g)
  /\ \E id \in Names :
       getter' = [getter EXCEPT ![g] =
         IF dir[id] = None THEN Ended(@, "done")
         ELSE [@ EXCEPT !.pc = "serve", !.id = id, !.fd = dir[id], !.after = Delivered]]
  /\ UNCHANGED <<fs, meta, writer, forward, clean, crashed>>

\* The recorder saw every byte go out with status 200.
completed(g) == getter' = [getter EXCEPT ![g].pc = "remove", ![g].got = data[getter[g].fd]]

Serve(g) ==
  /\ getter[g].pc = "serve"
  /\ completed(g)
  /\ UNCHANGED <<fs, meta, writer, forward, clean, crashed>>

\* Mutant: the file goes after any response.
RemoveAnyway(g) ==
  /\ getter[g].pc = "serve"
  /\ getter' = [getter EXCEPT ![g].pc = "remove"]
  /\ UNCHANGED <<fs, meta, writer, forward, clean, crashed>>

\* A range, a conditional request or a client that goes away: the file stays.
ServeInPart(g) ==
  /\ getter[g].pc = "serve"
  /\ getter' = [getter EXCEPT ![g] = Ended(@, "done")]
  /\ UNCHANGED <<fs, meta, writer, forward, clean, crashed>>

Unlink(id) == dir' = [dir EXCEPT ![id] = None]

Forget(id) == meta' = [meta EXCEPT ![id] = None]

\* Mutant: only the metadata goes.
KeepServed(g) ==
  /\ getter[g].pc = "remove"
  /\ getter' = [getter EXCEPT ![g].pc = "forget"]
  /\ UNCHANGED <<fs, meta, writer, forward, clean, crashed>>

RemoveServed(g) ==
  /\ getter[g].pc = "remove"
  /\ Unlink(getter[g].id)
  /\ getter' = [getter EXCEPT ![g].pc = "forget"]
  /\ UNCHANGED <<part, data, old, meta, writer, forward, clean, latest, crashed>>

ForgetServed(g) ==
  /\ getter[g].pc = "forget"
  /\ Forget(getter[g].id)
  /\ getter' = [getter EXCEPT ![g] = Ended(@, "done")]
  /\ UNCHANGED <<fs, writer, forward, clean, crashed>>

(***************************************************************************)
(* ForwardBinaryUploadRequest and ForwardMultipartRequest: the source is   *)
(* copied into the store under a name of its own (downloadFileFromURI),    *)
(* read from there, sent, and both are removed.                            *)
(***************************************************************************)
ForwardAt(f, from, to) ==
  /\ forward[f].pc = from
  /\ forward' = [forward EXCEPT ![f].pc = to]

\* A file of this store, or one of another server, whose blocks are called f.
\* Nobody else uses the copy's .inprogress name.
OpenSource(f) ==
  /\ forward[f].pc = "idle" /\ Cardinality(Begun) < Takers
  /\ \E id \in Sources :
       LET file == IF id = None THEN None ELSE dir[id]
       IN  IF id # None /\ file = None
             THEN ForwardAt(f, "idle", "done") /\ UNCHANGED part
             ELSE /\ forward' = [forward EXCEPT ![f] = [@ EXCEPT !.pc = "copy", !.id = id, !.fd = file]]
                  /\ part' = [part EXCEPT ![IdOf[f]] = f]
  /\ UNCHANGED <<dir, data, old, latest, meta, writer, getter, clean, crashed>>

CopySource(f) ==
  LET file == forward[f].fd
  IN  /\ ForwardAt(f, "copy", "read")
      /\ data' = [data EXCEPT ![f] = IF file = None THEN [b \in Blocks |-> f] ELSE data[file]]
      /\ part' = [part EXCEPT ![IdOf[f]] = None]
      /\ dir' = [dir EXCEPT ![IdOf[f]] = f]
      /\ latest' = [latest EXCEPT ![IdOf[f]] = f]
      /\ UNCHANGED <<old, meta, writer, getter, clean, crashed>>

\* The disk is full or the other server breaks off.
CopyFails(f) ==
  /\ ForwardAt(f, "copy", "failed")
  /\ part' = [part EXCEPT ![IdOf[f]] = None]
  /\ UNCHANGED <<dir, data, old, latest, meta, writer, getter, clean, crashed>>

\* Another file of the same form cannot be had: the copies go, the sources stay.
OtherFileFails(f) ==
  /\ ForwardAt(f, "read", "failed")
  /\ Unlink(IdOf[f])
  /\ UNCHANGED <<part, data, old, latest, meta, writer, getter, clean, crashed>>

\* What is read is the body of the request.
ReadCopy(f) ==
  LET file == dir[IdOf[f]]
  IN  /\ forward[f].pc = "read" /\ file # None
      /\ forward' = [forward EXCEPT ![f] = [@ EXCEPT !.pc = "send", !.got = data[file]]]
      /\ UNCHANGED <<fs, meta, writer, getter, clean, crashed>>

\* The deferred calls, which remove both however the call ends.
Deferred(f, from) ==
  /\ forward[f].pc = from
  /\ forward' = [forward EXCEPT ![f] = [@ EXCEPT !.pc = "clean", !.todo = {"copy", "source"}]]
  /\ UNCHANGED <<fs, meta, writer, getter, clean, crashed>>

\* The copy is gone, or cannot be opened or read: nothing is sent.
CopyUnreadable(f) == Deferred(f, "read")

\* The upstream takes it, refuses it or does not answer.
SendCopy(f) == Deferred(f, "send")

\* One of the callers removes the source first, the other the copy.
Cleaned(f, what) ==
  /\ what \in forward[f].todo
  /\ forward' = [forward EXCEPT ![f] =
       [@ EXCEPT !.todo = forward[f].todo \ {what},
                 !.pc = IF forward[f].todo = {what} THEN "done" ELSE "clean"]]

CleanupCopy(f) ==
  /\ Cleaned(f, "copy")
  /\ Unlink(IdOf[f])
  /\ UNCHANGED <<part, data, old, latest, meta, writer, getter, clean, crashed>>

\* Only what is in the upload directory goes.
CleanupSource(f) ==
  /\ Cleaned(f, "source")
  /\ IF \E u \in Uploaders : IdOf[u] = forward[f].id
       THEN Unlink(forward[f].id) /\ Forget(forward[f].id)
       ELSE UNCHANGED <<dir, meta>>
  /\ UNCHANGED <<part, data, old, writer, getter, clean, latest, crashed>>

ForwardStep(f) ==
  \/ OpenSource(f) \/ CopySource(f) \/ CopyFails(f) \/ OtherFileFails(f)
  \/ ReadCopy(f) \/ CopyUnreadable(f) \/ SendCopy(f)
  \/ CleanupCopy(f) \/ CleanupSource(f)

(***************************************************************************)
(* The clean job, time and restarts.                                       *)
(***************************************************************************)
\* A copy is younger than its source.
Age(f) ==
  /\ f \notin old
  /\ \E i \in Ids : dir[i] = f
  /\ f \in Forwarders =>
       LET source == forward[f].fd
       IN  source \in old \cup {None} \/ \A i \in Ids : dir[i] # source
  /\ old' = old \cup {f}
  /\ UNCHANGED <<dir, part, data, meta, writer, getter, forward, clean, latest, crashed>>

\* Mutant: the job looks through the metadata instead of the directories.
CleanKnown ==
  /\ clean = None
  /\ \E id \in Ids : dir[id] # None /\ dir[id] \in old /\ meta[id] # None /\ clean' = id
  /\ UNCHANGED <<fs, meta, writer, getter, forward, crashed>>

\* .inprogress names are skipped.
CleanStat ==
  /\ clean = None
  /\ \E id \in Ids : dir[id] # None /\ dir[id] \in old /\ clean' = id
  /\ UNCHANGED <<fs, meta, writer, getter, forward, crashed>>

CleanRemove ==
  /\ clean # None
  /\ Unlink(clean)
  /\ Forget(clean)
  /\ clean' = None
  /\ UNCHANGED <<part, data, old, writer, getter, forward, latest, crashed>>

\* A forwarding call that has not come to its deferred calls leaves what it has.
Halted(pc) ==
  CASE pc = "clean" -> "cut"
    [] pc \in {"copy", "read", "send"} -> "failed"
    [] OTHER -> pc

\* Files survive a restart; the metadata and whatever was running do not.
Crash ==
  /\ ~crashed
  /\ crashed' = TRUE
  /\ meta' = [i \in Ids |-> None]
  /\ writer' = [w \in Writers |->
       IF writer[w].pc \in {"idle", "answered"} THEN writer[w]
       ELSE [writer[w] EXCEPT !.pc = "failed"]]
  /\ getter' = [g \in Getters |->
       IF getter[g].pc \in {"idle", "done"} THEN getter[g]
       ELSE Ended(getter[g], "cut")]
  /\ forward' = [f \in Forwarders |->
       [forward[f] EXCEPT !.pc = Halted(forward[f].pc), !.todo = {}]]
  /\ clean' = None
  /\ UNCHANGED fs

WriterStep(w) ==
  Create(w) \/ Write(w, 1) \/ Write(w, 2) \/ WriteFails(w) \/ Rename(w) \/ StoreMeta(w)

GetterStep(g) ==
  Open(g) \/ Serve(g) \/ ServeInPart(g) \/ RemoveServed(g) \/ ForgetServed(g)

Next ==
  \/ \E w \in Writers : WriterStep(w)
  \/ \E g \in Getters : GetterStep(g)
  \/ \E f \in Forwarders : ForwardStep(f)
  \/ \E f \in Files : Age(f)
  \/ CleanStat \/ CleanRemove \/ Crash

\* The clean job runs once at startup and then with every tick; files get old.
\* Nothing else has to happen.
Fairness == WF_vars(CleanStat) /\ WF_vars(CleanRemove) /\ \A f \in Files : WF_vars(Age(f))

Spec == Init /\ [][Next]_vars

FairSpec == Spec /\ Fairness

-----------------------------------------------------------------------------
TypeOK ==
  /\ dir \in [Ids -> Files \cup {None}]
  /\ part \in [Ids -> Files \cup {None}]
  /\ data \in [Files -> [Blocks -> Files \cup {None}]]
  /\ old \subseteq Files
  /\ meta \in [Ids -> Writers \cup {None}]
  /\ \A w \in Writers :
       /\ writer[w].pc \in {"idle", "write1", "write2", "rename", "store",
                            "answered", "failed"}
       /\ (writer[w].pc = "idle") => writer[w].fd = None
  /\ \A g \in Getters :
       /\ getter[g].pc \in {"idle", "serve", "remove", "forget", "done", "cut"}
       /\ getter[g].pc \in {"serve", "remove", "forget"} => getter[g].fd \in Files
  /\ \A f \in Forwarders :
       /\ forward[f].pc \in {"idle", "copy", "read", "send", "clean", "done", "failed", "cut"}
       /\ forward[f].todo # {} => forward[f].pc = "clean"
  /\ clean \in Ids \cup {None}
  /\ \A i \in Ids : dir[i] # None => dir[i] = latest[i]

Whole(content) == \E w \in Files : content = [b \in Blocks |-> w]

\* Whoever downloads a file to the end, and every upstream request that a file is
\* forwarded in, gets all of one upload or of one upstream response, never part
\* of it or a mixture (client.templ:1187-1189).
NothingPartialLeaves ==
  /\ \A g \in Getters : getter[g].got # Empty => Whole(getter[g].got)
  /\ \A f \in Forwarders : forward[f].got # Empty => Whole(forward[f].got)

\* Some download has had the whole file that w wrote.
Downloaded(w) == \E g \in Getters : getter[g].got = [b \in Blocks |-> w]

\* A forwarding call has copied the whole upload and has come to its deferred
\* calls, which spend it: also if it could not read its copy, and if the upstream
\* has refused the file or has not answered.
Spent(w) ==
  /\ w \in Uploaders
  /\ \E f \in Forwarders : forward[f].fd = w /\ forward[f].pc \in {"clean", "done", "cut"}

\* A URL that was answered is good: where every writer has a name of its own, the
\* file is there until a download has had it in full, it has grown old, or a
\* forwarding call that copied it has ended with or without its being sent.  A
\* call that fails before that (no copy, another file of its form not to be had)
\* or is cut by a restart takes no upload away, no forwarding call takes away a
\* saved response, and no download that was not complete takes away either.
KeptUntilTaken ==
  \A w \in Writers :
    LET f == writer[w].fd
    IN  writer[w].pc = "answered" /\ f \notin old
          => dir[IdOf[w]] = f \/ Downloaded(f) \/ Spent(f)

\* A download that starts after another one has finished with the whole file
\* does not get it again.
GoneOnceDelivered ==
  \A g \in Getters : \A h \in getter[g].after :
    getter[g].got # Empty => getter[g].got # getter[h].got

\* Nothing stays for ever: a complete file leaves the store, whatever was cut off.
FilesLeave == \A i \in Ids : dir[i] # None ~> dir[i] = None
=============================================================================
