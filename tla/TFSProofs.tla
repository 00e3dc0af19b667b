----------------------------- MODULE TFSProofs -----------------------------
(***************************************************************************)
(* Safety of the temporary file store, for any number of uploads, saved    *)
(* responses, downloads, forwarding calls and names.  The types hold       *)
(* whatever the names; the rest where no two requests use the same name,   *)
(* as uploads of the same name may spoil each other's files.               *)
(***************************************************************************)
EXTENDS TFS, TLAPS

\* Every writer and every forwarding call has a name of its own.
Distinct == \A v, w \in Files : IdOf[v] = IdOf[w] => v = w

-----------------------------------------------------------------------------
(* The types of the records of requests.                                   *)

Content == [Blocks -> Files \cup {None}]

WriterType ==
  [pc : {"idle", "write1", "write2", "rename", "store", "answered", "failed"},
   fd : Files \cup {None}]

GetterType ==
  [pc : {"idle", "serve", "remove", "forget", "done", "cut"}, id : Ids \cup {None},
   fd : Files \cup {None}, got : Content, after : SUBSET Getters]

ForwardType ==
  [pc : {"idle", "copy", "read", "send", "clean", "done", "failed", "cut"}, id : Ids \cup {None},
   fd : Files \cup {None}, got : Content, todo : SUBSET {"copy", "source"}]

RecordsOK ==
  /\ latest \in [Ids -> Files \cup {None}]
  /\ writer \in [Writers -> WriterType]
  /\ \A w \in Writers : writer[w].pc # "idle" => writer[w].fd # None
  /\ getter \in [Getters -> GetterType]
  /\ \A g \in Getters : getter[g].pc \in {"serve", "remove", "forget"} => getter[g].id \in Ids
  /\ forward \in [Forwarders -> ForwardType]

TypeInv == TypeOK /\ RecordsOK

-----------------------------------------------------------------------------
(* The inductive invariant for distinct names.  A file is placed once, when *)
(* it is complete; what is done to it afterwards is to remove its name.     *)

Full(w) == [b \in Blocks |-> w]

\* w's file has been put in place.
Placed(w) == latest[IdOf[w]] = w

\* It may have gone: it was old, or downloaded, or spent by a forwarding call.
MayGo(w) == w \in old \/ Downloaded(w) \/ Spent(w)

\* Where a call that copied its file does its deferred calls, or has done them.
Ending == {"clean", "done", "cut"}

NamesInv ==
  \A i \in Ids :
    /\ latest[i] # None => IdOf[latest[i]] = i
    /\ part[i] # None => IdOf[part[i]] = i

WriterInv ==
  \A w \in Writers :
    /\ Placed(w) => writer[w].pc \in {"store", "answered", "failed"} /\ data[w] = Full(w)
    /\ writer[w].pc \in {"store", "answered"} => Placed(w)
    /\ writer[w].pc # "idle" => writer[w].fd = w
    /\ writer[w].pc = "write2" => data[w][1] = w
    /\ writer[w].pc = "rename" => data[w] = Full(w)
    /\ w \in old => Placed(w)

GetterInv ==
  \A g \in Getters :
    /\ getter[g].pc \in {"serve", "remove", "forget"} =>
         /\ getter[g].fd \in Writers
         /\ Placed(getter[g].fd)
         /\ getter[g].id = IdOf[getter[g].fd]
    /\ getter[g].pc \in {"idle", "serve"} => getter[g].got = Empty
    /\ getter[g].pc \in {"remove", "forget"} => getter[g].got = Full(getter[g].fd)
    /\ getter[g].got # Empty =>
         \E w \in Writers :
           /\ getter[g].got = Full(w) /\ Placed(w)
           /\ getter[g].pc \in {"forget", "done"} => dir[IdOf[w]] = None

\* What a download that is done was given, a later one is not.
AfterInv ==
  \A g \in Getters : \A h \in getter[g].after :
    /\ getter[h].pc = "done" /\ getter[h].got # Empty
    /\ getter[g].pc \in {"serve", "remove", "forget"} =>
         getter[h].got # Full(getter[g].fd)
    /\ getter[g].got # getter[h].got

\* What a forwarding call has of its source, and its copy.
ForwardOK(f) ==
  LET source == forward[f].fd
  IN  /\ Placed(f) => forward[f].pc \notin {"idle", "copy"} /\ Whole(data[f])
      /\ f \in old => Placed(f)
      /\ source # None =>
           /\ source \in Writers /\ Placed(source)
           /\ forward[f].pc # "idle" /\ forward[f].id = IdOf[source]
      /\ source = None => forward[f].id = None
      /\ forward[f].pc \in {"idle", "copy", "read"} => forward[f].got = Empty
      /\ forward[f].got # Empty => Whole(forward[f].got)

ForwardInv == \A f \in Forwarders : ForwardOK(f)

CleanInv == clean # None => \E file \in old : IdOf[file] = clean

KeepInv == \A w \in Writers : Placed(w) => dir[IdOf[w]] = w \/ MayGo(w)

StoreInv ==
  NamesInv /\ WriterInv /\ GetterInv /\ AfterInv /\ ForwardInv /\ CleanInv /\ KeepInv

-----------------------------------------------------------------------------
(* The types.                                                               *)

\* Names of writers and forwarding calls are names, and files are not None.
LEMMA NamesTyped ==
  /\ \A f \in Files : IdOf[f] \in Ids /\ f # None
  /\ None \notin Ids
BY TFSAssumption DEF Files

\* The store starts empty.
LEMMA InitTypes == Init => TypeInv
<1> SUFFICES ASSUME Init PROVE TypeInv
  OBVIOUS
<1>1. Empty \in Content
  BY DEF Empty, Content
<1>2. RecordsOK
  BY <1>1 DEF Init, RecordsOK, WriterType, GetterType, ForwardType
<1>3. TypeOK
  BY <1>1 DEF Init, TypeOK, Content
<1>. QED
  BY <1>2, <1>3 DEF TypeInv

\* The steps of a writer.
LEMMA WriterTypes == ASSUME TypeInv, NEW w \in Writers, WriterStep(w) PROVE TypeInv'
<1> USE NamesTyped DEF TypeInv
<1>. DEFINE id == IdOf[w]
<1>1. w \in Files /\ id \in Ids /\ Empty \in Content
  BY DEF Files, Empty, Content
<1>2. CASE Create(w)
  <2>. DEFINE file == IF part[id] = None THEN w ELSE part[id]
  <2>1. file \in Files
    BY <1>1 DEF TypeOK
  <2>2. RecordsOK'
    BY <1>1, <1>2, <2>1 DEF Create, RecordsOK, WriterType
  <2>3. TypeOK'
    BY <1>1, <1>2, <2>1 DEF Create, TypeOK, RecordsOK, Content
  <2>. QED
    BY <2>2, <2>3
<1>3. ASSUME NEW b \in Blocks, Write(w, b) PROVE TypeInv'
  <2>1. writer[w].fd \in Files
    BY <1>3 DEF Write, WriterAt, RecordsOK, WriterType, Blocks
  <2>2. RecordsOK'
    BY <1>3 DEF Write, WriterAt, RecordsOK, WriterType, Blocks
  <2>3. data' \in [Files -> [Blocks -> Files \cup {None}]]
    BY <1>1, <1>3, <2>1 DEF Write, TypeOK
  <2>4. TypeOK'
    BY <1>3, <2>1, <2>2, <2>3 DEF Write, WriterAt, TypeOK, RecordsOK, WriterType
  <2>. QED
    BY <2>2, <2>4
<1>4. CASE WriteFails(w)
  <2>1. RecordsOK'
    BY <1>4 DEF WriteFails, RecordsOK, WriterType
  <2>2. TypeOK'
    BY <1>1, <1>4 DEF WriteFails, TypeOK, RecordsOK, WriterType
  <2>. QED
    BY <2>1, <2>2
<1>5. CASE Rename(w)
  <2>1. /\ part' = [part EXCEPT ![id] = None]
        /\ UNCHANGED <<data, old, meta, getter, forward, clean, crashed>>
        /\ \/ writer' = [writer EXCEPT ![w].pc = "failed"] /\ UNCHANGED <<dir, latest>>
           \/ /\ writer' = [writer EXCEPT ![w].pc = "store"]
              /\ part[id] \in Files
              /\ dir' = [dir EXCEPT ![id] = part[id]]
              /\ latest' = [latest EXCEPT ![id] = part[id]]
        /\ writer[w].pc = "rename"
    BY <1>1, <1>5 DEF Rename, WriterAt, TypeOK
  <2>2. RecordsOK'
    BY <1>1, <2>1 DEF RecordsOK, WriterType
  <2>3. /\ dir' \in [Ids -> Files \cup {None}] /\ part' \in [Ids -> Files \cup {None}]
        /\ \A i \in Ids : dir'[i] # None => dir'[i] = latest'[i]
    <3>1. CASE UNCHANGED <<dir, latest>>
      BY <1>1, <2>1, <3>1 DEF TypeOK
    <3>2. CASE part[id] \in Files /\ dir' = [dir EXCEPT ![id] = part[id]]
               /\ latest' = [latest EXCEPT ![id] = part[id]]
      BY <1>1, <2>1, <3>2 DEF TypeOK, RecordsOK
    <3>. QED
      BY <2>1, <3>1, <3>2
  <2>4. \A v \in Writers : writer'[v].pc = "idle" => writer'[v].fd = None
    BY <2>1 DEF TypeOK, RecordsOK, WriterType
  <2>5. TypeOK'
    BY <2>1, <2>2, <2>3, <2>4 DEF TypeOK, RecordsOK, WriterType
  <2>. QED
    BY <2>2, <2>5
<1>6. CASE StoreMeta(w)
  <2>1. RecordsOK'
    BY <1>6 DEF StoreMeta, WriterAt, RecordsOK, WriterType, fs
  <2>2. TypeOK'
    BY <1>1, <1>6 DEF StoreMeta, WriterAt, TypeOK, RecordsOK, WriterType, fs
  <2>. QED
    BY <2>1, <2>2
<1>. QED
  BY <1>2, <1>3, <1>4, <1>5, <1>6 DEF WriterStep, Blocks

\* A request that has ended keeps what it got.
LEMMA EndedTyped ==
  ASSUME NEW r \in GetterType, NEW pc2 \in {"done", "cut"}
  PROVE  /\ Ended(r, pc2) \in GetterType
         /\ Ended(r, pc2).pc = pc2 /\ Ended(r, pc2).got = r.got /\ Ended(r, pc2).after = r.after
         /\ Ended(r, pc2).fd = None
BY DEF GetterType, Ended

\* The steps of a download.
LEMMA GetterTypes == ASSUME TypeInv, NEW g \in Getters, GetterStep(g) PROVE TypeInv'
<1> USE NamesTyped DEF TypeInv
<1>1. /\ getter[g] \in GetterType /\ (getter[g].pc \in {"serve", "remove", "forget"} => getter[g].id \in Ids)
      /\ Ended(getter[g], "done") \in GetterType /\ Ended(getter[g], "done").pc = "done"
  <2>1. getter[g] \in GetterType
    BY DEF RecordsOK
  <2>2. Ended(getter[g], "done") \in GetterType /\ Ended(getter[g], "done").pc = "done"
    BY <2>1, EndedTyped
  <2>. QED
    BY <2>1, <2>2 DEF RecordsOK
<1>2. CASE Open(g)
  <2>1. PICK id \in Names :
          getter' = [getter EXCEPT ![g] =
            IF dir[id] = None THEN Ended(@, "done")
            ELSE [@ EXCEPT !.pc = "serve", !.id = id, !.fd = dir[id], !.after = Delivered]]
    BY <1>2 DEF Open
  <2>2. id \in Ids /\ Delivered \in SUBSET Getters
    BY <2>1 DEF Names, Delivered, Files
  <2>3. dir[id] = None \/ dir[id] \in Files
    BY <2>2 DEF TypeOK
  <2>4. /\ getter'[g] \in GetterType
        /\ getter'[g].pc = "done" \/ (getter'[g].pc = "serve" /\ getter'[g].fd \in Files /\ getter'[g].id \in Ids)
        /\ getter' = [getter EXCEPT ![g] = getter'[g]]
    BY <1>1, <2>1, <2>2, <2>3 DEF GetterType, Ended, RecordsOK
  <2>5. RecordsOK'
    BY <1>2, <2>4 DEF Open, RecordsOK, fs
  <2>6. TypeOK'
    BY <1>2, <2>4 DEF Open, TypeOK, RecordsOK, GetterType, fs
  <2>. QED
    BY <2>5, <2>6
<1>3. CASE Serve(g)
  <2>1. data[getter[g].fd] \in Content
    BY <1>3 DEF Serve, TypeOK, Content
  <2>2. RecordsOK'
    BY <1>1, <1>3, <2>1 DEF Serve, completed, RecordsOK, GetterType, fs
  <2>3. TypeOK'
    BY <1>1, <1>3, <2>1 DEF Serve, completed, TypeOK, RecordsOK, GetterType, fs
  <2>. QED
    BY <2>2, <2>3
<1>4. CASE ServeInPart(g) \/ ForgetServed(g)
  <2>1. /\ getter' = [getter EXCEPT ![g] = Ended(@, "done")]
        /\ UNCHANGED <<fs, writer, forward, clean, crashed>>
        /\ meta' = meta \/ (getter[g].id \in Ids /\ meta' = [meta EXCEPT ![getter[g].id] = None])
    BY <1>1, <1>4 DEF ServeInPart, ForgetServed, Forget
  <2>2. RecordsOK'
    BY <1>1, <2>1 DEF RecordsOK, fs
  <2>3. meta' \in [Ids -> Writers \cup {None}]
    BY <2>1 DEF TypeOK
  <2>4. TypeOK'
    BY <1>1, <2>1, <2>3 DEF TypeOK, RecordsOK, GetterType, fs
  <2>. QED
    BY <2>2, <2>4
<1>5. CASE RemoveServed(g)
  <2>1. RecordsOK'
    BY <1>1, <1>5 DEF RemoveServed, RecordsOK, GetterType
  <2>2. TypeOK'
    BY <1>1, <1>5 DEF RemoveServed, Unlink, TypeOK, RecordsOK, GetterType
  <2>. QED
    BY <2>1, <2>2
<1>. QED
  BY <1>2, <1>3, <1>4, <1>5 DEF GetterStep

\* The steps of a forwarding call.
LEMMA ForwardTypes == ASSUME TypeInv, NEW f \in Forwarders, ForwardStep(f) PROVE TypeInv'
<1> USE NamesTyped DEF TypeInv
<1>. DEFINE id == IdOf[f]
<1>1. f \in Files /\ id \in Ids /\ Empty \in Content /\ Full(f) \in Content /\ forward[f] \in ForwardType
  BY DEF Files, Empty, Content, Full, RecordsOK
<1>2. CASE OpenSource(f)
  <2>1. PICK src \in Sources :
          LET file == IF src = None THEN None ELSE dir[src]
          IN  IF src # None /\ file = None
                THEN ForwardAt(f, "idle", "done") /\ UNCHANGED part
                ELSE /\ forward' = [forward EXCEPT ![f] = [@ EXCEPT !.pc = "copy", !.id = src, !.fd = file]]
                     /\ part' = [part EXCEPT ![id] = f]
    BY <1>2 DEF OpenSource
  <2>2. src \in Ids \cup {None} /\ (src \in Ids => dir[src] \in Files \cup {None})
    BY <1>2, TFSAssumption DEF TypeOK, Files
  <2>3. /\ forward' \in [Forwarders -> ForwardType]
        /\ \A h \in Forwarders : forward'[h].todo = forward[h].todo /\ (h # f => forward'[h] = forward[h])
    <3>1. CASE forward' = [forward EXCEPT ![f].pc = "done"]
      BY <1>1, <3>1 DEF ForwardType, RecordsOK
    <3>2. CASE \E file \in Files \cup {None} :
                 forward' = [forward EXCEPT ![f] = [@ EXCEPT !.pc = "copy", !.id = src, !.fd = file]]
      <4>1. PICK file \in Files \cup {None} :
              forward' = [forward EXCEPT ![f] = [@ EXCEPT !.pc = "copy", !.id = src, !.fd = file]]
        BY <3>2
      <4>. DEFINE r == [forward[f] EXCEPT !.pc = "copy", !.id = src, !.fd = file]
      <4>2. r \in ForwardType /\ r.todo = forward[f].todo
        BY <1>1, <2>2 DEF ForwardType
      <4>3. forward' = [forward EXCEPT ![f] = r]
        BY <4>1
      <4>. HIDE DEF r
      <4>. QED
        BY <4>2, <4>3 DEF RecordsOK
    <3>. QED
      BY <2>1, <2>2, <3>1, <3>2 DEF ForwardAt
  <2>4. forward[f].todo = {}
    BY <1>2 DEF OpenSource, TypeOK
  <2>5. part' \in [Ids -> Files \cup {None}]
    BY <1>1, <2>1 DEF TypeOK
  <2>6. RecordsOK'
    BY <1>2, <2>3 DEF OpenSource, RecordsOK
  <2>7. TypeOK'
    BY <1>2, <2>3, <2>4, <2>5 DEF OpenSource, TypeOK, ForwardType
  <2>. QED
    BY <2>6, <2>7
<1>3. CASE CopySource(f)
  <2>1. data' \in [Files -> [Blocks -> Files \cup {None}]]
    <3>1. forward[f].fd \in Files \cup {None}
      BY <1>1 DEF ForwardType
    <3>. QED
      BY <1>1, <1>3, <3>1 DEF CopySource, TypeOK
  <2>2. RecordsOK'
    BY <1>1, <1>3 DEF CopySource, ForwardAt, RecordsOK, ForwardType
  <2>3. TypeOK'
    BY <1>1, <1>3, <2>1 DEF CopySource, ForwardAt, TypeOK, RecordsOK, ForwardType
  <2>. QED
    BY <2>2, <2>3
<1>4. CASE CopyFails(f) \/ OtherFileFails(f)
  <2>1. /\ forward[f].pc \in {"copy", "read"} /\ forward' = [forward EXCEPT ![f].pc = "failed"]
        /\ part' = part \/ part' = [part EXCEPT ![id] = None]
        /\ dir' = dir \/ dir' = [dir EXCEPT ![id] = None]
        /\ UNCHANGED <<data, old, latest, meta, writer, getter, clean, crashed>>
    BY <1>4 DEF CopyFails, OtherFileFails, ForwardAt, Unlink
  <2>2. RecordsOK'
    BY <1>1, <2>1 DEF RecordsOK, ForwardType
  <2>3. /\ dir' \in [Ids -> Files \cup {None}] /\ part' \in [Ids -> Files \cup {None}]
        /\ \A i \in Ids : dir'[i] # None => dir'[i] = latest'[i]
    BY <1>1, <2>1 DEF TypeOK
  <2>4. forward[f].todo = {}
    BY <2>1 DEF TypeOK
  <2>5. TypeOK'
    BY <1>1, <2>1, <2>3, <2>4 DEF TypeOK, RecordsOK, ForwardType
  <2>. QED
    BY <2>2, <2>5
<1>5. CASE ReadCopy(f)
  <2>1. data[dir[id]] \in Content
    BY <1>1, <1>5 DEF ReadCopy, TypeOK, Content
  <2>2. RecordsOK'
    BY <1>1, <1>5, <2>1 DEF ReadCopy, RecordsOK, ForwardType, fs
  <2>3. TypeOK'
    BY <1>1, <1>5, <2>1 DEF ReadCopy, TypeOK, RecordsOK, ForwardType, fs
  <2>. QED
    BY <2>2, <2>3
<1>7. CASE CopyUnreadable(f) \/ SendCopy(f)
  <2>. DEFINE r == [forward[f] EXCEPT !.pc = "clean", !.todo = {"copy", "source"}]
  <2>1. forward' = [forward EXCEPT ![f] = r]
        /\ UNCHANGED <<fs, meta, writer, getter, clean, crashed>>
    BY <1>7 DEF CopyUnreadable, SendCopy, Deferred
  <2>2. r \in ForwardType /\ r.pc = "clean"
    BY <1>1 DEF ForwardType
  <2>. HIDE DEF r
  <2>3. RecordsOK'
    BY <2>1, <2>2 DEF RecordsOK, fs
  <2>4. TypeOK'
    BY <2>1, <2>2 DEF TypeOK, RecordsOK, fs
  <2>. QED
    BY <2>3, <2>4
<1>6. CASE CleanupCopy(f) \/ CleanupSource(f)
  <2>1. PICK what \in {"copy", "source"} : Cleaned(f, what)
    BY <1>6 DEF CleanupCopy, CleanupSource
  <2>2. \E i \in Ids : /\ dir' = dir \/ dir' = [dir EXCEPT ![i] = None]
                       /\ meta' = meta \/ meta' = [meta EXCEPT ![i] = None]
    <3>1. \A u \in Uploaders : IdOf[u] \in Ids
      BY DEF Files, Writers
    <3>. QED
      BY <1>1, <1>6, <3>1 DEF CleanupCopy, CleanupSource, Unlink, Forget
  <2>3. UNCHANGED <<part, data, old, writer, getter, clean, latest, crashed>>
    BY <1>6 DEF CleanupCopy, CleanupSource
  <2>4. PICK pc \in {"clean", "done"} :
          /\ pc = IF forward[f].todo = {what} THEN "done" ELSE "clean"
          /\ forward' = [forward EXCEPT ![f] =
                           [forward[f] EXCEPT !.todo = forward[f].todo \ {what}, !.pc = pc]]
    BY <2>1 DEF Cleaned
  <2>5. /\ forward' \in [Forwarders -> ForwardType]
        /\ \A h \in Forwarders \ {f} : forward'[h] = forward[h]
        /\ forward'[f].todo = forward[f].todo \ {what} /\ forward'[f].pc = pc
    <3>. DEFINE r == [forward[f] EXCEPT !.todo = forward[f].todo \ {what}, !.pc = pc]
    <3>1. r \in ForwardType /\ r.todo = forward[f].todo \ {what} /\ r.pc = pc
      BY <1>1 DEF ForwardType
    <3>2. forward' = [forward EXCEPT ![f] = r]
      BY <2>4
    <3>. HIDE DEF r
    <3>. QED
      BY <3>1, <3>2 DEF RecordsOK
  <2>6. RecordsOK'
    BY <2>3, <2>5 DEF RecordsOK
  <2>7. TypeOK'
    <3>1. forward'[f].todo # {} => forward'[f].pc = "clean"
      BY <2>1, <2>4, <2>5 DEF Cleaned
    <3>2. \A h \in Forwarders : /\ forward'[h].pc \in {"idle", "copy", "read", "send", "clean",
                                                     "done", "failed", "cut"}
                                /\ forward'[h].todo # {} => forward'[h].pc = "clean"
      BY <2>5, <3>1 DEF TypeOK
    <3>3. /\ dir' \in [Ids -> Files \cup {None}] /\ meta' \in [Ids -> Writers \cup {None}]
          /\ \A i \in Ids : dir'[i] # None => dir'[i] = latest'[i]
      BY <2>2, <2>3 DEF TypeOK
    <3>. QED
      BY <2>3, <3>2, <3>3 DEF TypeOK
  <2>. QED
    BY <2>6, <2>7
<1>. QED
  BY <1>2, <1>3, <1>4, <1>5, <1>6, <1>7 DEF ForwardStep

\* Time, the clean job and a restart.
LEMMA CleanTypes ==
  ASSUME TypeInv, (\E f \in Files : Age(f)) \/ CleanStat \/ CleanRemove \/ Crash
  PROVE  TypeInv'
<1> USE NamesTyped DEF TypeInv
<1>1. CASE \E f \in Files : Age(f)
  BY <1>1 DEF Age, TypeOK, RecordsOK
<1>2. CASE CleanStat
  BY <1>2 DEF CleanStat, TypeOK, RecordsOK, fs
<1>3. CASE CleanRemove
  <2>1. clean \in Ids
    BY <1>3 DEF CleanRemove, TypeOK
  <2>. QED
    BY <1>3, <2>1 DEF CleanRemove, Unlink, Forget, TypeOK, RecordsOK
<1>4. CASE Crash
  <2>1. /\ writer' \in [Writers -> WriterType]
        /\ \A w \in Writers : /\ writer'[w].fd = writer[w].fd
                              /\ writer'[w].pc = "idle" <=> writer[w].pc = "idle"
    <3>1. \A w \in Writers : [writer[w] EXCEPT !.pc = "failed"] \in WriterType
      BY DEF RecordsOK, WriterType
    <3>. QED
      BY <1>4, <3>1 DEF Crash, RecordsOK, WriterType
  <2>2. /\ getter' \in [Getters -> GetterType]
        /\ \A g \in Getters : getter'[g].pc \in {"idle", "done", "cut"}
    <3>1. \A g \in Getters : Ended(getter[g], "cut") \in GetterType /\ Ended(getter[g], "cut").pc = "cut"
      BY EndedTyped DEF RecordsOK
    <3>. QED
      BY <1>4, <3>1 DEF Crash, RecordsOK
  <2>3. /\ forward' \in [Forwarders -> ForwardType]
        /\ \A f \in Forwarders : forward'[f].todo = {}
    <3>1. \A f \in Forwarders : Halted(forward[f].pc) \in
            {"idle", "copy", "read", "send", "clean", "done", "failed", "cut"}
      BY DEF TypeOK, Halted
    <3>2. \A r \in ForwardType,
            pc2 \in {"idle", "copy", "read", "send", "clean", "done", "failed", "cut"} :
              /\ [r EXCEPT !.pc = pc2, !.todo = {}] \in ForwardType
              /\ [r EXCEPT !.pc = pc2, !.todo = {}].todo = {}
      BY DEF ForwardType
    <3>3. \A f \in Forwarders : forward[f] \in ForwardType
      BY DEF RecordsOK
    <3>. QED
      BY <1>4, <3>1, <3>2, <3>3 DEF Crash
  <2>0. /\ UNCHANGED <<dir, part, data, old, latest>> /\ clean' = None
        /\ meta' \in [Ids -> Writers \cup {None}]
    BY <1>4 DEF Crash, fs
  <2>4. RecordsOK'
    <3>1. \A w \in Writers : writer'[w].pc # "idle" => writer'[w].fd # None
      BY <2>1 DEF RecordsOK
    <3>. QED
      BY <2>0, <2>1, <2>2, <2>3, <3>1 DEF RecordsOK
  <2>5. TypeOK'
    <3>1. \A w \in Writers : writer'[w].pc = "idle" => writer'[w].fd = None
      BY <2>1 DEF TypeOK
    <3>. QED
      BY <2>0, <2>1, <2>2, <2>3, <3>1 DEF TypeOK, WriterType, ForwardType
  <2>. QED
    BY <2>4, <2>5
<1>. QED
  BY <1>1, <1>2, <1>3, <1>4

\* Every step keeps the types.
LEMMA StepTypes == ASSUME TypeInv, [Next]_vars PROVE TypeInv'
<1>1. CASE UNCHANGED vars
  BY <1>1 DEF vars, TypeInv, TypeOK, RecordsOK
<1>. QED
  BY <1>1, WriterTypes, GetterTypes, ForwardTypes, CleanTypes DEF Next

\* The store's records keep their types whatever names the requests use.
LEMMA Typing == Spec => []TypeInv
BY InitTypes, StepTypes, PTL DEF Spec

\* A complete name only ever stands for the file put in place under it last, and
\* a request that is running has a file open.
THEOREM TypeCorrect == Spec => []TypeOK
<1>1. TypeInv => TypeOK
  BY DEF TypeInv
<1>. QED
  BY <1>1, Typing, PTL

-----------------------------------------------------------------------------
(* Distinct names.                                                          *)

\* Whose data a file is can be read off its blocks.
LEMMA FullFacts ==
  /\ \A v, w : Full(v) = Full(w) => v = w
  /\ \A w \in Files : Full(w) # Empty /\ Whole(Full(w))
<1>1. \A w : Full(w)[1] = w
  BY DEF Full, Blocks
<1>2. Empty[1] = None
  BY DEF Empty, Blocks
<1>. QED
  BY <1>1, <1>2, NamesTyped DEF Full, Whole

\* Downloads do not mind what happens to names that have gone, or that they do
\* not use.
LEMMA GettersUndisturbed ==
  ASSUME GetterInv, AfterInv, UNCHANGED getter,
         \A w \in Writers : Placed(w) => /\ Placed(w)'
                                         /\ dir[IdOf[w]] = None => dir'[IdOf[w]] = None
  PROVE  GetterInv' /\ AfterInv'
<1>1. GetterInv'
  BY DEF GetterInv
<1>2. AfterInv'
  BY DEF AfterInv
<1>. QED
  BY <1>1, <1>2

\* Nor does a forwarding call whose copy is left alone.
LEMMA ForwardUndisturbed ==
  ASSUME NEW f \in Forwarders, ForwardOK(f), forward'[f] = forward[f],
         data'[f] = data[f],
         Placed(f)' <=> Placed(f),
         f \in old' => f \in old \/ Placed(f),
         \A w \in Writers : Placed(w) => Placed(w)'
  PROVE  ForwardOK(f)'
<1>. DEFINE source == forward[f].fd
<1>1. /\ Placed(f)' => forward'[f].pc \notin {"idle", "copy"} /\ Whole(data'[f])
      /\ f \in old' => Placed(f)'
  BY DEF ForwardOK
<1>2. source # None =>
        /\ source \in Writers /\ Placed(source)'
        /\ forward[f].pc # "idle" /\ forward[f].id = IdOf[source]
  BY DEF ForwardOK
<1>3. /\ source = None => forward[f].id = None
      /\ forward[f].pc \in {"idle", "copy", "read"} => forward[f].got = Empty
      /\ forward[f].got # Empty => Whole(forward[f].got)
  BY DEF ForwardOK
<1>. QED
  BY <1>1, <1>2, <1>3 DEF ForwardOK, Placed, Whole

LEMMA ForwardsUndisturbed ==
  ASSUME ForwardInv, UNCHANGED forward,
         \A f \in Forwarders : /\ data'[f] = data[f]
                               /\ Placed(f)' <=> Placed(f)
                               /\ f \in old' => f \in old \/ Placed(f),
         \A w \in Writers : Placed(w) => Placed(w)'
  PROVE  ForwardInv'
BY ForwardUndisturbed DEF ForwardInv

\* A store that has nothing keeps every promise.
LEMMA InitStore == Init => StoreInv
<1> SUFFICES ASSUME Init PROVE StoreInv
  OBVIOUS
<1>1. \A w \in Files : ~Placed(w) /\ w \notin old
  BY NamesTyped DEF Init, Placed
<1>2. NamesInv /\ CleanInv
  BY DEF Init, NamesInv, CleanInv
<1>3. WriterInv /\ KeepInv
  BY <1>1 DEF Init, WriterInv, KeepInv, Files
<1>4. GetterInv /\ AfterInv
  BY DEF Init, GetterInv, AfterInv
<1>5. ForwardInv
  BY <1>1 DEF Init, ForwardInv, ForwardOK, Files
<1>. QED
  BY <1>2, <1>3, <1>4, <1>5 DEF StoreInv

\* A writer's steps before its file is in place touch its own file only.
LEMMA WritingKeeps ==
  ASSUME Distinct, TypeInv, StoreInv, NEW w \in Writers,
         Create(w) \/ (\E b \in Blocks : Write(w, b)) \/ WriteFails(w) \/ StoreMeta(w)
  PROVE  StoreInv'
<1> USE DEF StoreInv
<1>1. w \in Files /\ IdOf[w] \in Ids /\ \A f \in Forwarders : f # w
  BY NamesTyped, TFSAssumption DEF Files
<1>2. \A i \in Ids : part[i] # None => part[i] \in Files /\ IdOf[part[i]] = i
  BY DEF TypeInv, TypeOK, NamesInv
<1>3. part[IdOf[w]] \in {None, w}
  BY <1>1, <1>2 DEF Distinct
<1>4. Create(w) \/ (\E b \in Blocks : Write(w, b)) => ~Placed(w) /\ w \notin old
  <2>1. writer[w].pc \in {"idle", "write1", "write2"} => ~Placed(w) /\ w \notin old
    BY DEF WriterInv
  <2>2. Create(w) => writer[w].pc = "idle"
    BY DEF Create
  <2>3. \A b \in Blocks : Write(w, b) => writer[w].pc \in {"write1", "write2"}
    BY DEF Write, WriterAt
  <2>. QED
    BY <2>1, <2>2, <2>3
<1>5. UNCHANGED <<dir, latest, getter, forward, clean>>
  BY DEF Create, Write, WriteFails, StoreMeta, fs
<1>6. old' = old
  <2>1. CASE Create(w)
    BY <1>1, <1>3, <1>4, <2>1 DEF Create
  <2>2. ASSUME NEW b \in Blocks, Write(w, b) PROVE old' = old
    <3>1. writer[w].fd = w
      BY <2>2 DEF Write, WriterAt, WriterInv
    <3>. QED
      BY <1>4, <2>2, <3>1 DEF Write
  <2>3. CASE WriteFails(w) \/ StoreMeta(w)
    BY <2>3 DEF WriteFails, StoreMeta, fs
  <2>. QED
    BY <2>1, <2>2, <2>3
<1>7. /\ \A f \in Files \ {w} : data'[f] = data[f]
      /\ data'[w] # data[w] => ~Placed(w)
  <2>1. CASE Create(w)
    BY <1>1, <1>3, <1>4, <2>1 DEF Create, TypeInv, TypeOK
  <2>2. CASE \E b \in Blocks : Write(w, b)
    <3>1. writer[w].fd = w
      BY <2>2 DEF Write, WriterAt, WriterInv, Blocks
    <3>. QED
      BY <1>4, <2>2, <3>1 DEF Write, TypeInv, TypeOK
  <2>3. CASE WriteFails(w) \/ StoreMeta(w)
    BY <2>3 DEF WriteFails, StoreMeta, fs
  <2>. QED
    BY <2>1, <2>2, <2>3
<1>8. \A i \in Ids : part'[i] = part[i] \/ part'[i] = None \/ (part'[i] = w /\ i = IdOf[w])
  BY <1>1, <1>3 DEF Create, Write, WriteFails, StoreMeta, fs, TypeInv, TypeOK
<1>9. /\ writer' = [writer EXCEPT ![w] = writer'[w]]
      /\ writer'[w].pc # "idle" /\ writer'[w].fd = w
      /\ Placed(w) => writer'[w].pc \in {"store", "answered", "failed"}
      /\ writer'[w].pc \in {"store", "answered"} => Placed(w)
      /\ writer'[w].pc = "write2" => data'[w][1] = w
      /\ writer'[w].pc = "rename" => data'[w] = Full(w)
  <2>1. CASE Create(w)
    BY <1>1, <1>3, <1>4, <2>1 DEF Create, TypeInv, RecordsOK
  <2>2. ASSUME Write(w, 1) PROVE <1>9!:
    <3>1. writer[w].fd = w /\ ~Placed(w) /\ writer[w] \in WriterType
      BY <1>4, <2>2 DEF Write, WriterAt, WriterInv, TypeInv, RecordsOK, Blocks
    <3>2. data'[w] = [data[w] EXCEPT ![1] = w] /\ data[w] \in Content
      BY <1>1, <2>2, <3>1 DEF Write, TypeInv, TypeOK, Content
    <3>. QED
      BY <2>2, <3>1, <3>2 DEF Write, WriterAt, TypeInv, RecordsOK, WriterType, Content, Blocks
  <2>3. ASSUME Write(w, 2) PROVE <1>9!:
    <3>1. writer[w].fd = w /\ ~Placed(w) /\ writer[w] \in WriterType /\ data[w][1] = w
      BY <1>4, <2>3 DEF Write, WriterAt, WriterInv, TypeInv, RecordsOK, Blocks
    <3>2. data'[w] = [data[w] EXCEPT ![2] = w] /\ data[w] \in Content
      BY <1>1, <2>3, <3>1 DEF Write, TypeInv, TypeOK, Content
    <3>3. data'[w] = Full(w)
      BY <3>1, <3>2 DEF Content, Full, Blocks
    <3>. QED
      BY <2>3, <3>1, <3>3 DEF Write, WriterAt, TypeInv, RecordsOK, WriterType
  <2>4. CASE WriteFails(w)
    BY <2>4 DEF WriteFails, WriterInv, TypeInv, RecordsOK, WriterType
  <2>5. CASE StoreMeta(w)
    BY <2>5 DEF StoreMeta, WriterAt, WriterInv, TypeInv, RecordsOK, WriterType
  <2>. QED
    BY <2>1, <2>2, <2>3, <2>4, <2>5 DEF Blocks
<1>10. \A v \in Files : /\ Placed(v)' <=> Placed(v)
                        /\ MayGo(v)' <=> MayGo(v)
  BY <1>5, <1>6 DEF Placed, MayGo, Downloaded, Spent
<1>11. NamesInv'
  BY <1>5, <1>8 DEF NamesInv
<1>12. WriterInv'
  BY <1>6, <1>7, <1>9, <1>10 DEF WriterInv, Files, TypeInv, RecordsOK
<1>13. GetterInv' /\ AfterInv'
  BY <1>5, <1>10, GettersUndisturbed DEF Files
<1>14. ForwardInv'
  BY <1>1, <1>5, <1>6, <1>7, <1>10, ForwardsUndisturbed DEF Files
<1>15. CleanInv' /\ KeepInv'
  BY <1>5, <1>6, <1>10 DEF CleanInv, KeepInv, Files
<1>. QED
  BY <1>11, <1>12, <1>13, <1>14, <1>15

\* A file is put in place once, and complete.
LEMMA RenameKeeps ==
  ASSUME Distinct, TypeInv, StoreInv, NEW w \in Writers, Rename(w) PROVE StoreInv'
<1> USE DEF StoreInv
<1>. DEFINE id == IdOf[w]
<1>1. w \in Files /\ id \in Ids /\ \A f \in Forwarders : f # w
  BY NamesTyped, TFSAssumption DEF Files
<1>2. \A v \in Files : IdOf[v] \in Ids /\ (v # w => IdOf[v] # id)
  BY <1>1, NamesTyped DEF Distinct
<1>3. part[id] \in {None, w}
  BY <1>1 DEF TypeInv, TypeOK, NamesInv, Distinct
<1>4. ~Placed(w) /\ w \notin old /\ data[w] = Full(w) /\ writer[w].fd = w
  BY DEF Rename, WriterInv
<1>5. UNCHANGED <<data, old, getter, forward, clean>> /\ part' = [part EXCEPT ![id] = None]
  BY DEF Rename
<1>6. \/ /\ UNCHANGED <<dir, latest>>
         /\ writer' = [writer EXCEPT ![w].pc = "failed"]
      \/ /\ dir' = [dir EXCEPT ![id] = w]
         /\ latest' = [latest EXCEPT ![id] = w]
         /\ writer' = [writer EXCEPT ![w].pc = "store"]
  BY <1>3 DEF Rename, WriterAt
<1>7. \A v \in Files \ {w} : /\ latest'[IdOf[v]] = latest[IdOf[v]]
                             /\ dir'[IdOf[v]] = dir[IdOf[v]]
                             /\ Placed(v)' <=> Placed(v)
  BY <1>1, <1>2, <1>6 DEF TypeInv, TypeOK, RecordsOK, Placed
<1>8. \A v \in Files : MayGo(v)' <=> MayGo(v)
  BY <1>5 DEF MayGo, Downloaded, Spent
<1>9. NamesInv'
  BY <1>1, <1>5, <1>6 DEF NamesInv, TypeInv, TypeOK, RecordsOK
<1>10. WriterInv'
  <2>1. /\ \A v \in Writers \ {w} : writer'[v] = writer[v]
        /\ writer'[w].fd = w /\ writer'[w].pc \in {"failed", "store"}
        /\ Placed(w)' <=> writer'[w].pc = "store"
    BY <1>1, <1>4, <1>6 DEF TypeInv, TypeOK, RecordsOK, WriterType, Placed
  <2>. QED
    BY <1>4, <1>5, <1>7, <2>1 DEF WriterInv, Files
<1>11. GetterInv' /\ AfterInv'
  BY <1>4, <1>5, <1>7, GettersUndisturbed DEF Files
<1>12. ForwardInv'
  BY <1>1, <1>4, <1>5, <1>7, <1>8, ForwardsUndisturbed DEF Files
<1>13. CleanInv' /\ KeepInv'
  <2>1. Placed(w)' => dir'[id] = w
    BY <1>1, <1>4, <1>6 DEF TypeInv, TypeOK, RecordsOK, Placed
  <2>. QED
    BY <1>5, <1>7, <1>8, <2>1 DEF CleanInv, KeepInv, Files
<1>. QED
  BY <1>9, <1>10, <1>11, <1>12, <1>13

\* A download opens a file that is in place and that no download has finished with.
LEMMA OpenKeeps ==
  ASSUME Distinct, TypeInv, StoreInv, NEW g \in Getters, Open(g) PROVE StoreInv'
<1> USE DEF StoreInv
<1>1. UNCHANGED <<dir, part, data, old, latest, writer, forward, clean>>
  BY DEF Open, fs
<1>2. PICK id \in Names :
        getter' = [getter EXCEPT ![g] =
          IF dir[id] = None THEN Ended(@, "done")
          ELSE [@ EXCEPT !.pc = "serve", !.id = id, !.fd = dir[id], !.after = Delivered]]
  BY DEF Open
<1>3. PICK w \in Writers : id = IdOf[w]
  BY DEF Names
<1>4. w \in Files /\ id \in Ids
  BY <1>3, NamesTyped DEF Files
<1>5. dir[id] # None => dir[id] = w /\ Placed(w)
  BY <1>3, <1>4 DEF TypeInv, TypeOK, NamesInv, Distinct, Placed
<1>6. getter[g] \in GetterType /\ getter[g].pc = "idle" /\ getter[g].got = Empty
  BY DEF Open, Begins, GetterInv, TypeInv, RecordsOK
<1>7. /\ \A h \in Getters \ {g} : getter'[h] = getter[h]
      /\ getter'[g].got = Empty
      /\ \/ getter'[g].pc = "done" /\ getter'[g].after = getter[g].after
         \/ /\ getter'[g].pc = "serve" /\ getter'[g].after = Delivered
            /\ getter'[g].fd = w /\ getter'[g].id = id /\ dir[id] = w /\ Placed(w)
  BY <1>2, <1>5, <1>6, EndedTyped DEF TypeInv, RecordsOK, GetterType
<1>8. \A v \in Files : (Placed(v)' <=> Placed(v)) /\ (MayGo(v)' <=> MayGo(v))
  <2>1. \A v \in Files : getter[g].got # Full(v) /\ getter'[g].got # Full(v)
    BY <1>6, <1>7, FullFacts
  <2>. QED
    BY <1>1, <1>7, <2>1 DEF Placed, MayGo, Downloaded, Spent, Full
<1>9. NamesInv' /\ WriterInv' /\ CleanInv' /\ KeepInv'
  BY <1>1, <1>8 DEF NamesInv, WriterInv, CleanInv, KeepInv, Files
<1>10. GetterInv'
  BY <1>1, <1>3, <1>7, <1>8 DEF GetterInv, Files
<1>11. AfterInv'
  <2>1. \A k \in Getters : g \notin getter[k].after
    BY <1>6 DEF AfterInv
  <2>2. \A h \in Delivered : h \in Getters /\ h # g /\ getter[h].pc = "done" /\ getter[h].got # Empty
    BY <1>6 DEF Delivered
  <2>3. ASSUME dir[id] = w, NEW h \in Delivered PROVE getter[h].got # Full(w)
    <3>1. PICK v \in Writers : getter[h].got = Full(v) /\ dir[IdOf[v]] = None
      BY <2>2 DEF GetterInv
    <3>2. v # w
      BY <1>3, <1>4, <2>3, <3>1, NamesTyped
    <3>. QED
      BY <3>1, <3>2, FullFacts
  <2>4. \A h \in getter'[g].after :
          /\ h \in Getters /\ h # g
          /\ getter[h].pc = "done" /\ getter[h].got # Empty
          /\ getter'[g].pc = "serve" => getter[h].got # Full(w)
    BY <1>6, <1>7, <2>1, <2>2, <2>3 DEF AfterInv, GetterType
  <2>5. \A k \in Getters : getter[k].after \subseteq Getters
    BY DEF TypeInv, RecordsOK, GetterType
  <2>. QED
    BY <1>7, <2>1, <2>4, <2>5 DEF AfterInv
<1>12. ForwardInv'
  BY <1>1, <1>8, ForwardsUndisturbed DEF Files
<1>. QED
  BY <1>9, <1>10, <1>11, <1>12

\* What is served is all of one writer's data, and whoever began after an earlier
\* download had finished has another file open.
LEMMA ServeKeeps ==
  ASSUME Distinct, TypeInv, StoreInv, NEW g \in Getters, Serve(g) PROVE StoreInv'
<1> USE DEF StoreInv
<1>. DEFINE w == getter[g].fd
<1>1. /\ UNCHANGED <<dir, part, data, old, latest, writer, forward, clean>>
      /\ getter[g].pc = "serve" /\ getter[g] \in GetterType
  BY DEF Serve, fs, TypeInv, RecordsOK
<1>2. w \in Writers /\ w \in Files /\ Placed(w) /\ data[w] = Full(w) /\ getter[g].id = IdOf[w]
  BY <1>1 DEF GetterInv, WriterInv, Files
<1>3. /\ \A h \in Getters \ {g} : getter'[h] = getter[h]
      /\ getter'[g].got = Full(w) /\ getter'[g].pc = "remove" /\ getter'[g].fd = w
      /\ getter'[g].id = IdOf[w] /\ getter'[g].after = getter[g].after
  BY <1>1, <1>2 DEF Serve, completed, TypeInv, RecordsOK, GetterType
<1>. HIDE DEF w
<1>4. getter[g].got = Empty
  BY <1>1 DEF GetterInv
<1>5. \A v \in Files : (Placed(v)' <=> Placed(v)) /\ (MayGo(v) => MayGo(v)')
  <2>1. \A v \in Files : getter[g].got # Full(v)
    BY <1>4, FullFacts
  <2>. QED
    BY <1>1, <1>3, <2>1 DEF Placed, MayGo, Downloaded, Spent, Full
<1>6. NamesInv' /\ WriterInv' /\ CleanInv' /\ KeepInv'
  BY <1>1, <1>5 DEF NamesInv, WriterInv, CleanInv, KeepInv, Files
<1>7. GetterInv'
  BY <1>1, <1>2, <1>3, <1>5 DEF GetterInv, Files
<1>8. AfterInv'
  <2>1. \A k \in Getters : k # g => g \notin getter[k].after
    BY <1>1 DEF AfterInv
  <2>2. g \notin getter[g].after /\ \A h \in getter[g].after : getter[h].got # Full(w)
    BY <1>1 DEF AfterInv, w
  <2>3. \A k \in Getters : getter[k].after \subseteq Getters
    BY DEF TypeInv, RecordsOK, GetterType
  <2>. QED
    BY <1>3, <2>1, <2>2, <2>3 DEF AfterInv
<1>9. ForwardInv'
  BY <1>1, <1>5, ForwardsUndisturbed DEF Files
<1>. QED
  BY <1>6, <1>7, <1>8, <1>9

\* The name goes once the file has been had; then the request is over.
LEMMA RemoveKeeps ==
  ASSUME Distinct, TypeInv, StoreInv, NEW g \in Getters,
         ServeInPart(g) \/ RemoveServed(g) \/ ForgetServed(g)
  PROVE  StoreInv'
<1> USE DEF StoreInv
<1>1. /\ UNCHANGED <<part, data, old, latest, writer, forward, clean>>
      /\ getter[g] \in GetterType /\ getter[g].pc \in {"serve", "remove", "forget"}
  BY DEF ServeInPart, RemoveServed, ForgetServed, fs, TypeInv, RecordsOK
<1>2. PICK w \in Writers : w = getter[g].fd /\ Placed(w) /\ getter[g].id = IdOf[w]
  BY <1>1 DEF GetterInv
<1>3. w \in Files /\ IdOf[w] \in Ids /\ \A v \in Files \ {w} : IdOf[v] # IdOf[w]
  BY <1>2, NamesTyped DEF Files, Distinct
<1>4. /\ \A h \in Getters \ {g} : getter'[h] = getter[h]
      /\ getter'[g].got = getter[g].got /\ getter'[g].after = getter[g].after
      /\ \/ getter[g].pc = "serve" /\ getter'[g].pc = "done"
         \/ /\ getter[g].pc = "remove" /\ getter'[g].pc = "forget"
            /\ getter'[g].fd = w /\ getter'[g].id = IdOf[w]
         \/ getter[g].pc = "forget" /\ getter'[g].pc = "done"
  BY <1>1, <1>2, EndedTyped DEF ServeInPart, RemoveServed, ForgetServed, TypeInv, RecordsOK, GetterType
<1>5. /\ \A v \in Files \ {w} : dir'[IdOf[v]] = dir[IdOf[v]]
      /\ getter[g].pc # "remove" => dir' = dir
      /\ getter[g].pc = "remove" => dir'[IdOf[w]] = None
  BY <1>1, <1>2, <1>3, NamesTyped DEF ServeInPart, RemoveServed, ForgetServed, Unlink, fs, TypeInv, TypeOK
<1>6. \A v \in Files : (Placed(v)' <=> Placed(v)) /\ (MayGo(v)' <=> MayGo(v))
  BY <1>1, <1>4 DEF Placed, MayGo, Downloaded, Spent
<1>7. getter[g].pc \in {"remove", "forget"} => getter[g].got = Full(w)
  BY <1>2 DEF GetterInv
<1>8. NamesInv' /\ WriterInv' /\ CleanInv'
  BY <1>1, <1>6 DEF NamesInv, WriterInv, CleanInv, Files
<1>9. KeepInv'
  <2>1. getter[g].pc = "remove" => MayGo(w)
    BY <1>7 DEF MayGo, Downloaded, Spent, Full
  <2>. QED
    BY <1>3, <1>5, <1>6, <2>1 DEF KeepInv, Files
<1>10. GetterInv'
  <2>1. ASSUME NEW v \in Writers, dir[IdOf[v]] = None PROVE dir'[IdOf[v]] = None
    BY <1>5, <2>1 DEF Files
  <2>2. ASSUME NEW h \in Getters \ {g}
        PROVE  getter'[h].got # Empty =>
                 \E v \in Writers : /\ getter'[h].got = Full(v) /\ Placed(v)'
                                    /\ getter'[h].pc \in {"forget", "done"} => dir'[IdOf[v]] = None
    BY <1>4, <1>6, <2>1 DEF GetterInv, Files
  <2>3. getter'[g].got # Empty =>
                 \E v \in Writers : /\ getter'[g].got = Full(v) /\ Placed(v)'
                                    /\ getter'[g].pc \in {"forget", "done"} => dir'[IdOf[v]] = None
    <3>1. CASE getter[g].pc = "serve"
      BY <1>4, <3>1 DEF GetterInv
    <3>2. CASE getter[g].pc = "remove"
      BY <1>2, <1>4, <1>5, <1>6, <1>7, <3>2 DEF Files
    <3>3. CASE getter[g].pc = "forget"
      BY <1>4, <1>6, <2>1, <3>3 DEF GetterInv, Files
    <3>. QED
      BY <1>1, <3>1, <3>2, <3>3
  <2>4. ASSUME NEW h \in Getters
        PROVE  /\ getter'[h].pc \in {"serve", "remove", "forget"} =>
                    /\ getter'[h].fd \in Writers /\ Placed(getter[h].fd)'
                    /\ getter'[h].id = IdOf[getter'[h].fd]
               /\ getter'[h].pc \in {"idle", "serve"} => getter'[h].got = Empty
               /\ getter'[h].pc \in {"remove", "forget"} => getter'[h].got = Full(getter'[h].fd)
    <3>1. CASE h = g
      BY <1>1, <1>2, <1>4, <1>7, <3>1 DEF Placed
    <3>2. CASE h # g
      BY <1>1, <1>4, <3>2 DEF GetterInv, Placed
    <3>. QED
      BY <3>1, <3>2
  <2>. QED
    BY <2>2, <2>3, <2>4 DEF GetterInv, Full
<1>11. AfterInv'
  <2>1. \A k \in Getters : g \notin getter[k].after /\ getter[k].after \subseteq Getters
    BY <1>1 DEF AfterInv, TypeInv, RecordsOK, GetterType
  <2>. QED
    BY <1>2, <1>4, <2>1 DEF AfterInv
<1>12. ForwardInv'
  <2>1. \A f \in Forwarders : f \in Files /\ f # w
    BY <1>2, TFSAssumption DEF Files
  <2>. QED
    BY <1>1, <1>5, <1>6, <2>1, ForwardsUndisturbed DEF Files
<1>. QED
  BY <1>8, <1>9, <1>10, <1>11, <1>12
\* A step of a forwarding call that touches its own copy, and of the other files
\* removes only what may go, spoils nothing but what the call says of itself.
LEMMA ForwardFrame ==
  ASSUME Distinct, TypeInv, StoreInv, NEW f \in Forwarders,
         UNCHANGED <<old, writer, getter, clean>>,
         NamesInv',
         ForwardOK(f)',
         \A h \in Forwarders \ {f} : forward'[h] = forward[h],
         forward[f].pc \in Ending => forward'[f].pc \in Ending /\ forward'[f].fd = forward[f].fd,
         \A v \in Files \ {f} :
           /\ data'[v] = data[v]
           /\ latest'[IdOf[v]] = latest[IdOf[v]]
           /\ \/ dir'[IdOf[v]] = dir[IdOf[v]]
              \/ v \in Writers /\ dir'[IdOf[v]] = None /\ MayGo(v)
  PROVE  StoreInv'
<1> USE DEF StoreInv
<1>1. \A w \in Writers : w \in Files \ {f}
  BY TFSAssumption DEF Files
<1>2. \A v \in Files \ {f} : Placed(v)' <=> Placed(v)
  BY DEF Placed
<1>3. \A v \in Files : MayGo(v) => MayGo(v)'
  <2>1. ASSUME NEW h \in Forwarders, forward[h].pc \in Ending
        PROVE  forward'[h].pc \in Ending /\ forward'[h].fd = forward[h].fd
    BY <2>1
  <2>. QED
    BY <2>1 DEF MayGo, Downloaded, Spent, Ending
<1>4. WriterInv'
  BY <1>1, <1>2 DEF WriterInv
<1>5. GetterInv' /\ AfterInv'
  BY <1>1, <1>2, GettersUndisturbed
<1>6. ForwardInv'
  <2>1. ASSUME NEW h \in Forwarders \ {f} PROVE ForwardOK(h)'
    <3>1. h \in Files \ {f} /\ h \notin Writers
      BY TFSAssumption DEF Files
    <3>. QED
      BY <1>1, <1>2, <1>3, <3>1, ForwardUndisturbed DEF ForwardInv
  <2>. QED
    BY <2>1 DEF ForwardInv
<1>7. CleanInv' /\ KeepInv'
  BY <1>1, <1>2, <1>3 DEF CleanInv, KeepInv
<1>. QED
  BY <1>4, <1>5, <1>6, <1>7

\* A call names a file it has open, or one of another server.
LEMMA OpenSourceKeeps ==
  ASSUME Distinct, TypeInv, StoreInv, NEW f \in Forwarders, OpenSource(f)
  PROVE  StoreInv'
<1> USE DEF StoreInv
<1>1. /\ UNCHANGED <<dir, data, old, latest, writer, getter, clean>>
      /\ forward[f] \in ForwardType /\ forward[f].pc = "idle"
  BY DEF OpenSource, TypeInv, RecordsOK
<1>2. f \in Files /\ IdOf[f] \in Ids
  BY NamesTyped DEF Files
<1>3. /\ ~Placed(f) /\ f \notin old /\ forward[f].got = Empty
      /\ forward[f].fd = None /\ forward[f].id = None
  BY <1>1 DEF ForwardInv, ForwardOK
<1>4. PICK src \in Sources :
        LET file == IF src = None THEN None ELSE dir[src]
        IN  IF src # None /\ file = None
              THEN ForwardAt(f, "idle", "done") /\ UNCHANGED part
              ELSE /\ forward' = [forward EXCEPT ![f] = [@ EXCEPT !.pc = "copy", !.id = src, !.fd = file]]
                   /\ part' = [part EXCEPT ![IdOf[f]] = f]
  BY DEF OpenSource
<1>5. ASSUME src # None, dir[src] # None
      PROVE  dir[src] \in Writers /\ Placed(dir[src]) /\ src = IdOf[dir[src]]
  <2>1. PICK w \in Writers : src = IdOf[w]
    BY <1>5, TFSAssumption
  <2>2. w \in Files /\ src \in Ids
    BY <2>1, NamesTyped DEF Files
  <2>. QED
    BY <1>5, <2>1, <2>2 DEF TypeInv, TypeOK, NamesInv, Distinct, Placed
<1>6. /\ \A h \in Forwarders \ {f} : forward'[h] = forward[h]
      /\ forward'[f].got = Empty
      /\ \/ forward'[f].pc = "done" /\ forward'[f].fd = None /\ forward'[f].id = None
         \/ forward'[f].pc = "copy" /\ forward'[f].fd = None /\ forward'[f].id = None
         \/ /\ forward'[f].pc = "copy" /\ forward'[f].fd \in Writers
            /\ latest'[IdOf[forward'[f].fd]] = forward'[f].fd
            /\ forward'[f].id = IdOf[forward'[f].fd]
  <2>1. CASE src # None /\ dir[src] = None
    BY <1>1, <1>3, <1>4, <2>1 DEF ForwardAt, TypeInv, RecordsOK, ForwardType
  <2>2. CASE ~(src # None /\ dir[src] = None)
    <3>. DEFINE file == IF src = None THEN None ELSE dir[src]
                r == [forward[f] EXCEPT !.pc = "copy", !.id = src, !.fd = file]
    <3>1. forward' = [forward EXCEPT ![f] = r]
      BY <1>4, <2>2
    <3>2. r.pc = "copy" /\ r.id = src /\ r.fd = file /\ r.got = Empty
      BY <1>1, <1>3 DEF ForwardType
    <3>3. \/ file = None /\ src = None
          \/ file \in Writers /\ latest[IdOf[file]] = file /\ src = IdOf[file]
      BY <1>5, <2>2 DEF Placed
    <3>. HIDE DEF r, file
    <3>4. forward'[f] = r /\ \A h \in Forwarders \ {f} : forward'[h] = forward[h]
      BY <3>1 DEF TypeInv, RecordsOK
    <3>. QED
      BY <1>1, <3>2, <3>3, <3>4 DEF Placed
  <2>. QED
    BY <2>1, <2>2
<1>7. NamesInv'
  <2>1. part' = part \/ part' = [part EXCEPT ![IdOf[f]] = f]
    BY <1>4
  <2>. QED
    BY <1>1, <1>2, <2>1 DEF NamesInv, TypeInv, TypeOK
<1>8. ForwardOK(f)'
  <2>1. None \notin Writers
    BY NamesTyped DEF Files
  <2>2. ~Placed(f)' /\ f \notin old' /\ forward'[f].pc \in {"done", "copy"}
    BY <1>1, <1>3, <1>6 DEF Placed
  <2>. QED
    BY <1>6, <2>1, <2>2 DEF ForwardOK, Placed
<1>. QED
  BY <1>1, <1>6, <1>7, <1>8, ForwardFrame DEF Ending

\* The copy is complete when it is put in place.
LEMMA CopyKeeps ==
  ASSUME Distinct, TypeInv, StoreInv, NEW f \in Forwarders, CopySource(f)
  PROVE  StoreInv'
<1> USE DEF StoreInv
<1>. DEFINE source == forward[f].fd
<1>1. /\ UNCHANGED <<old, writer, getter, clean>>
      /\ forward[f] \in ForwardType /\ forward[f].pc = "copy"
  BY DEF CopySource, ForwardAt, TypeInv, RecordsOK
<1>2. f \in Files /\ IdOf[f] \in Ids /\ \A v \in Files \ {f} : IdOf[v] \in Ids /\ IdOf[v] # IdOf[f]
  BY NamesTyped DEF Files, Distinct
<1>3. ~Placed(f) /\ f \notin old /\ forward[f].got = Empty
  BY <1>1 DEF ForwardInv, ForwardOK
<1>4. source # None => /\ source \in Writers /\ source \in Files \ {f} /\ Placed(source)
                       /\ forward[f].id = IdOf[source] /\ data[source] = Full(source)
  BY <1>1, TFSAssumption DEF ForwardInv, ForwardOK, WriterInv, Files
<1>5. /\ \A h \in Forwarders \ {f} : forward'[h] = forward[h]
      /\ forward'[f] = [forward[f] EXCEPT !.pc = "read"]
      /\ forward'[f].pc = "read" /\ forward'[f].fd = source /\ forward'[f].id = forward[f].id
      /\ forward'[f].got = Empty
  BY <1>1, <1>3 DEF CopySource, ForwardAt, TypeInv, RecordsOK, ForwardType
<1>6. /\ dir' = [dir EXCEPT ![IdOf[f]] = f]
      /\ latest' = [latest EXCEPT ![IdOf[f]] = f]
      /\ part' = [part EXCEPT ![IdOf[f]] = None]
      /\ \A v \in Files \ {f} : data'[v] = data[v]
      /\ data'[f] = IF source = None THEN Full(f) ELSE Full(source)
  BY <1>2, <1>4 DEF CopySource, TypeInv, TypeOK, Full
<1>7. /\ dir'[IdOf[f]] = f /\ latest'[IdOf[f]] = f
      /\ \A v \in Files \ {f} : latest'[IdOf[v]] = latest[IdOf[v]] /\ dir'[IdOf[v]] = dir[IdOf[v]]
  BY <1>2, <1>6 DEF TypeInv, TypeOK, RecordsOK
<1>8. NamesInv'
  BY <1>2, <1>6 DEF NamesInv, TypeInv, TypeOK, RecordsOK
<1>9. ForwardOK(f)'
  <2>1. Whole(data[f])'
    BY <1>2, <1>4, <1>6 DEF Whole, Full
  <2>2. source = None => forward[f].id = None
    BY DEF ForwardInv, ForwardOK
  <2>3. source # None => latest'[IdOf[source]] = source
    BY <1>4, <1>7 DEF Placed
  <2>4. forward'[f].got = Empty /\ Empty' = Empty /\ Placed(f)'
    BY <1>5, <1>7 DEF Placed
  <2>. QED
    BY <1>1, <1>4, <1>5, <2>1, <2>2, <2>3, <2>4 DEF ForwardOK, Placed
<1>. QED
  BY <1>1, <1>5, <1>6, <1>7, <1>8, <1>9, ForwardFrame DEF Ending

\* A call that fails keeps nothing but its source.
LEMMA FailKeeps ==
  ASSUME Distinct, TypeInv, StoreInv, NEW f \in Forwarders, CopyFails(f) \/ OtherFileFails(f)
  PROVE  StoreInv'
<1> USE DEF StoreInv
<1>1. /\ UNCHANGED <<old, latest, data, writer, getter, clean>>
      /\ forward[f] \in ForwardType /\ forward[f].pc \in {"copy", "read"}
  BY DEF CopyFails, OtherFileFails, ForwardAt, TypeInv, RecordsOK
<1>2. f \in Files /\ IdOf[f] \in Ids /\ \A v \in Files \ {f} : IdOf[v] \in Ids /\ IdOf[v] # IdOf[f]
  BY NamesTyped DEF Files, Distinct
<1>3. /\ \A h \in Forwarders \ {f} : forward'[h] = forward[h]
      /\ forward'[f].pc = "failed" /\ forward'[f].fd = forward[f].fd
      /\ forward'[f].id = forward[f].id /\ forward'[f].got = forward[f].got
  BY <1>1 DEF CopyFails, OtherFileFails, ForwardAt, TypeInv, RecordsOK, ForwardType
<1>4. /\ dir' = dir \/ dir' = [dir EXCEPT ![IdOf[f]] = None]
      /\ part' = part \/ part' = [part EXCEPT ![IdOf[f]] = None]
  BY DEF CopyFails, OtherFileFails, Unlink
<1>5. \A v \in Files \ {f} : dir'[IdOf[v]] = dir[IdOf[v]]
  BY <1>2, <1>4 DEF TypeInv, TypeOK
<1>6. NamesInv'
  BY <1>1, <1>2, <1>4 DEF NamesInv, TypeInv, TypeOK
<1>7. ForwardOK(f)'
  BY <1>1, <1>3 DEF ForwardInv, ForwardOK, Placed, Whole
<1>. QED
  BY <1>1, <1>3, <1>5, <1>6, <1>7, ForwardFrame DEF Ending

\* What is read of the copy, and sent, is whole; then the call comes to its
\* deferred calls, also with nothing read.
LEMMA ReadKeeps ==
  ASSUME Distinct, TypeInv, StoreInv, NEW f \in Forwarders,
         ReadCopy(f) \/ CopyUnreadable(f) \/ SendCopy(f)
  PROVE  StoreInv'
<1> USE DEF StoreInv
<1>0. PICK source : source = forward[f].fd
  OBVIOUS
<1>1. /\ UNCHANGED <<dir, part, data, old, latest, writer, getter, clean>>
      /\ forward[f] \in ForwardType /\ forward[f].pc \in {"read", "send"}
  BY DEF ReadCopy, CopyUnreadable, SendCopy, Deferred, fs, TypeInv, RecordsOK
<1>2. f \in Files /\ IdOf[f] \in Ids /\ f # None
  BY NamesTyped DEF Files
<1>3. dir[IdOf[f]] # None => dir[IdOf[f]] = f /\ Placed(f)
  BY <1>2 DEF TypeInv, TypeOK, NamesInv, Distinct, Placed
<1>4. /\ \A h \in Forwarders \ {f} : forward'[h] = forward[h]
      /\ forward'[f].pc \in {"send", "clean"} /\ forward'[f].fd = source
      /\ forward'[f].id = forward[f].id
      /\ \/ forward'[f].got = forward[f].got
         \/ forward'[f].got = data[f] /\ Placed(f)
  <2>1. CASE ReadCopy(f)
    <3>. DEFINE r == [forward[f] EXCEPT !.pc = "send", !.got = data[f]]
    <3>1. forward' = [forward EXCEPT ![f] = r] /\ Placed(f)
      BY <1>3, <2>1 DEF ReadCopy
    <3>2. r.pc = "send" /\ r.id = forward[f].id /\ r.fd = source /\ r.got = data[f]
      BY <1>0, <1>1 DEF ForwardType
    <3>. HIDE DEF r
    <3>. QED
      BY <3>1, <3>2 DEF TypeInv, RecordsOK
  <2>2. CASE CopyUnreadable(f) \/ SendCopy(f)
    <3>. DEFINE r == [forward[f] EXCEPT !.pc = "clean", !.todo = {"copy", "source"}]
    <3>1. forward' = [forward EXCEPT ![f] = r]
      BY <2>2 DEF CopyUnreadable, SendCopy, Deferred
    <3>2. r.pc = "clean" /\ r.id = forward[f].id /\ r.fd = source /\ r.got = forward[f].got
      BY <1>0, <1>1 DEF ForwardType
    <3>. HIDE DEF r
    <3>. QED
      BY <3>1, <3>2 DEF TypeInv, RecordsOK
  <2>. QED
    BY <2>1, <2>2
<1>5. NamesInv'
  BY <1>1 DEF NamesInv
<1>6. ForwardOK(f)'
  BY <1>0, <1>1, <1>4 DEF ForwardInv, ForwardOK, Placed, Whole
<1>. QED
  BY <1>1, <1>4, <1>5, <1>6, ForwardFrame DEF Ending

\* What a call removes in the end is its copy, and a source that may go.
LEMMA CleanupKeeps ==
  ASSUME Distinct, TypeInv, StoreInv, NEW f \in Forwarders, CleanupCopy(f) \/ CleanupSource(f)
  PROVE  StoreInv'
<1> USE DEF StoreInv
<1>0. PICK source : source = forward[f].fd
  OBVIOUS
<1>1. /\ UNCHANGED <<part, data, old, latest, writer, getter, clean>>
      /\ forward[f] \in ForwardType
  BY DEF CleanupCopy, CleanupSource, TypeInv, RecordsOK
<1>2. f \in Files /\ IdOf[f] \in Ids /\ \A v \in Files \ {f} : IdOf[v] \in Ids /\ IdOf[v] # IdOf[f]
  BY NamesTyped DEF Files, Distinct
<1>3. PICK what \in {"copy", "source"} : Cleaned(f, what)
  BY DEF CleanupCopy, CleanupSource
<1>4. forward[f].pc = "clean"
  BY <1>3 DEF Cleaned, TypeInv, TypeOK
<1>5. /\ \A h \in Forwarders \ {f} : forward'[h] = forward[h]
      /\ forward'[f].pc \in {"done", "clean"} /\ forward'[f].fd = source
      /\ forward'[f].id = forward[f].id /\ forward'[f].got = forward[f].got
  <2>1. PICK pc \in {"clean", "done"} :
          forward' = [forward EXCEPT ![f] =
                        [forward[f] EXCEPT !.todo = forward[f].todo \ {what}, !.pc = pc]]
    BY <1>3 DEF Cleaned
  <2>. DEFINE r == [forward[f] EXCEPT !.todo = forward[f].todo \ {what}, !.pc = pc]
  <2>2. r.pc = pc /\ r.fd = source /\ r.id = forward[f].id /\ r.got = forward[f].got
    BY <1>0, <1>1 DEF ForwardType
  <2>3. forward' = [forward EXCEPT ![f] = r]
    BY <2>1
  <2>. HIDE DEF r
  <2>. QED
    BY <2>2, <2>3 DEF TypeInv, RecordsOK
<1>6. /\ source # None => source \in Writers /\ forward[f].id = IdOf[source]
      /\ source = None => forward[f].id = None
  BY <1>0, <1>4 DEF ForwardInv, ForwardOK
<1>7. \/ dir' = dir
      \/ dir' = [dir EXCEPT ![IdOf[f]] = None]
      \/ /\ source # None /\ source \in Uploaders
         /\ dir' = [dir EXCEPT ![IdOf[source]] = None]
  <2>1. \A u \in Uploaders : u \in Files /\ IdOf[u] # None
    BY NamesTyped DEF Files, Writers
  <2>2. ASSUME NEW u \in Uploaders, IdOf[u] = forward[f].id
        PROVE  source # None /\ source = u
    BY <1>6, <2>1, <2>2 DEF Distinct, Files
  <2>. QED
    BY <1>6, <2>2 DEF CleanupCopy, CleanupSource, Unlink
<1>8. \A v \in Files \ {f} : \/ dir'[IdOf[v]] = dir[IdOf[v]]
                             \/ v \in Writers /\ dir'[IdOf[v]] = None /\ MayGo(v)
  <2>1. source # None => source \in Files /\ IdOf[source] \in Ids /\ source # f
    BY <1>6, NamesTyped, TFSAssumption DEF Files
  <2>2. \A v \in Files : IdOf[v] = IdOf[source] /\ source # None => v = source
    BY <2>1 DEF Distinct
  <2>3. dir \in [Ids -> Files \cup {None}]
    BY DEF TypeInv, TypeOK
  <2>4. CASE dir' = dir
    BY <2>4
  <2>5. CASE dir' = [dir EXCEPT ![IdOf[f]] = None]
    BY <1>2, <2>3, <2>5
  <2>6. CASE /\ source # None /\ source \in Uploaders
             /\ dir' = [dir EXCEPT ![IdOf[source]] = None]
    <3>1. ASSUME NEW v \in Files \ {f}, v # source PROVE dir'[IdOf[v]] = dir[IdOf[v]]
      BY <1>2, <2>2, <2>3, <2>6, <3>1
    <3>2. dir'[IdOf[source]] = None /\ source \in Writers /\ MayGo(source)
      BY <1>0, <1>4, <1>6, <2>1, <2>3, <2>6 DEF MayGo, Spent
    <3>. QED
      BY <3>1, <3>2
  <2>. QED
    BY <1>7, <2>4, <2>5, <2>6
<1>9. NamesInv'
  BY <1>1 DEF NamesInv
<1>10. ForwardOK(f)'
  BY <1>0, <1>1, <1>4, <1>5 DEF ForwardInv, ForwardOK, Placed, Whole
<1>. QED
  BY <1>0, <1>1, <1>5, <1>8, <1>9, <1>10, ForwardFrame DEF Ending

\* A file grows old in its place.
LEMMA AgeKeeps ==
  ASSUME Distinct, TypeInv, StoreInv, NEW file \in Files, Age(file) PROVE StoreInv'
<1> USE DEF StoreInv
<1>1. /\ UNCHANGED <<dir, part, data, latest, writer, getter, forward, clean>>
      /\ old' = old \cup {file}
  BY DEF Age
<1>2. \A v \in Files : (Placed(v)' <=> Placed(v)) /\ (MayGo(v) => MayGo(v)')
  BY <1>1 DEF Placed, MayGo, Downloaded, Spent
<1>3. Placed(file)
  BY NamesTyped DEF Age, TypeInv, TypeOK, NamesInv, Placed
<1>4. NamesInv' /\ CleanInv' /\ KeepInv'
  BY <1>1, <1>2 DEF NamesInv, CleanInv, KeepInv, Files
<1>5. WriterInv'
  BY <1>1, <1>2, <1>3 DEF WriterInv, Files
<1>6. GetterInv' /\ AfterInv'
  BY <1>1, <1>2, GettersUndisturbed DEF Files
<1>7. ForwardInv'
  BY <1>1, <1>2, <1>3, ForwardsUndisturbed DEF Files
<1>. QED
  BY <1>4, <1>5, <1>6, <1>7

\* The clean job removes the name of a file that is old, whatever has that name
\* by then.
LEMMA CleanKeeps ==
  ASSUME Distinct, TypeInv, StoreInv, CleanStat \/ CleanRemove PROVE StoreInv'
<1> USE DEF StoreInv
<1>1. UNCHANGED <<part, data, old, latest, writer, getter, forward>>
  BY DEF CleanStat, CleanRemove, fs
<1>2. \A v \in Files : (Placed(v)' <=> Placed(v)) /\ (MayGo(v)' <=> MayGo(v))
  BY <1>1 DEF Placed, MayGo, Downloaded, Spent
<1>3. CleanInv'
  <2>1. CASE CleanStat
    BY <2>1 DEF CleanStat, fs, CleanInv, TypeInv, TypeOK, NamesInv
  <2>2. CASE CleanRemove
    BY <2>2 DEF CleanRemove, CleanInv
  <2>. QED
    BY <2>1, <2>2
<1>4. \A v \in Files : \/ dir'[IdOf[v]] = dir[IdOf[v]]
                       \/ v \in old /\ dir'[IdOf[v]] = None
  <2>1. dir' = dir \/ \E file \in old : file \in Files /\ dir' = [dir EXCEPT ![IdOf[file]] = None]
    BY DEF CleanStat, CleanRemove, Unlink, fs, CleanInv, TypeInv, TypeOK
  <2>2. \A v \in Files : IdOf[v] \in Ids
    BY NamesTyped
  <2>. QED
    BY <2>1, <2>2 DEF Distinct, TypeInv, TypeOK
<1>5. NamesInv' /\ WriterInv'
  BY <1>1, <1>2 DEF NamesInv, WriterInv, Files
<1>6. KeepInv'
  BY <1>1, <1>2, <1>4 DEF KeepInv, MayGo, Files
<1>7. GetterInv' /\ AfterInv'
  BY <1>1, <1>2, <1>4, GettersUndisturbed DEF Files
<1>8. ForwardInv'
  BY <1>1, <1>2, ForwardsUndisturbed DEF Files
<1>. QED
  BY <1>3, <1>5, <1>6, <1>7, <1>8

\* A restart ends the requests; what they have had, and the files, stay.
LEMMA CrashKeeps ==
  ASSUME Distinct, TypeInv, StoreInv, Crash PROVE StoreInv'
<1> USE DEF StoreInv
<1>1. UNCHANGED <<dir, part, data, old, latest>> /\ clean' = None
  BY DEF Crash, fs
<1>2. \A w \in Writers : /\ writer'[w].fd = writer[w].fd
                         /\ \/ writer'[w].pc = writer[w].pc /\ writer[w].pc \in {"idle", "answered"}
                            \/ writer'[w].pc = "failed" /\ writer[w].pc # "idle"
  <2>1. \A w \in Writers : writer[w] \in WriterType
    BY DEF TypeInv, RecordsOK
  <2>. QED
    BY <2>1 DEF Crash, WriterType
<1>3. \A g \in Getters : /\ getter'[g].got = getter[g].got /\ getter'[g].after = getter[g].after
                         /\ \/ getter'[g] = getter[g] /\ getter[g].pc \in {"idle", "done"}
                            \/ getter'[g].pc = "cut" /\ getter[g].pc \notin {"idle", "done"}
  BY EndedTyped DEF Crash, TypeInv, RecordsOK
<1>4. \A f \in Forwarders :
        /\ forward'[f].fd = forward[f].fd /\ forward'[f].id = forward[f].id
        /\ forward'[f].got = forward[f].got
        /\ \/ forward'[f].pc = forward[f].pc /\ forward[f].pc \in {"idle", "done", "failed", "cut"}
           \/ forward'[f].pc = "cut" /\ forward[f].pc = "clean"
           \/ forward'[f].pc = "failed" /\ forward[f].pc \in {"copy", "read", "send"}
  <2> TAKE f \in Forwarders
  <2>1. forward[f] \in ForwardType
    BY DEF TypeInv, RecordsOK
  <2>2. forward'[f] = [forward[f] EXCEPT !.pc = Halted(forward[f].pc), !.todo = {}]
    BY DEF Crash
  <2>3. /\ forward'[f].pc = Halted(forward[f].pc) /\ forward'[f].fd = forward[f].fd
        /\ forward'[f].id = forward[f].id /\ forward'[f].got = forward[f].got
    BY <2>1, <2>2 DEF ForwardType
  <2>4. forward[f].pc \in {"idle", "copy", "read", "send", "clean", "done", "failed", "cut"}
    BY <2>1 DEF ForwardType
  <2>. QED
    BY <2>3, <2>4 DEF Halted
<1>5. \A v \in Files : (Placed(v)' <=> Placed(v)) /\ (MayGo(v)' <=> MayGo(v))
  BY <1>1, <1>3, <1>4 DEF Placed, MayGo, Downloaded, Spent
<1>6. NamesInv' /\ CleanInv' /\ KeepInv'
  BY <1>1, <1>5 DEF NamesInv, CleanInv, KeepInv, Files
<1>7. WriterInv'
  BY <1>1, <1>2, <1>5 DEF WriterInv, Full, Files
<1>8. GetterInv'
  BY <1>1, <1>3, <1>5 DEF GetterInv, Files
<1>9. AfterInv'
  <2>1. \A g \in Getters : getter[g].after \subseteq Getters
    BY DEF TypeInv, RecordsOK, GetterType
  <2>. QED
    BY <1>3, <2>1 DEF AfterInv
<1>10. ASSUME NEW f \in Forwarders PROVE ForwardOK(f)'
  <2>1. f \in Files /\ \A w \in Writers : w \in Files
    BY DEF Files
  <2>2. ForwardOK(f)
    BY DEF ForwardInv
  <2>. QED
    BY <1>1, <1>4, <1>5, <2>1, <2>2 DEF ForwardOK, Whole, Full
<1>. QED
  BY <1>6, <1>7, <1>8, <1>9, <1>10 DEF ForwardInv

\* Every step keeps the store's invariant.
LEMMA StepStore ==
  ASSUME Distinct, TypeInv, StoreInv, [Next]_vars PROVE StoreInv'
<1>1. CASE UNCHANGED vars
  BY <1>1 DEF vars, StoreInv, NamesInv, WriterInv, GetterInv, AfterInv, ForwardInv, ForwardOK,
     CleanInv, KeepInv, Placed, MayGo, Downloaded, Spent, Full, Whole
<1>2. ASSUME NEW w \in Writers, WriterStep(w) PROVE StoreInv'
  BY <1>2, WritingKeeps, RenameKeeps DEF WriterStep, Blocks
<1>3. ASSUME NEW g \in Getters, GetterStep(g) PROVE StoreInv'
  BY <1>3, OpenKeeps, ServeKeeps, RemoveKeeps DEF GetterStep
<1>4. ASSUME NEW f \in Forwarders, ForwardStep(f) PROVE StoreInv'
  BY <1>4, OpenSourceKeeps, CopyKeeps, FailKeeps, ReadKeeps, CleanupKeeps DEF ForwardStep
<1>. QED
  BY <1>1, <1>2, <1>3, <1>4, AgeKeeps, CleanKeeps, CrashKeeps DEF Next

\* The invariant of a store whose requests have names of their own.
LEMMA Storing == ASSUME Distinct PROVE Spec => []StoreInv
BY InitStore, StepStore, Typing, PTL DEF Spec

\* Whoever downloads or forwards a file to the end gets all of one upload or of
\* one upstream response (the rename of a complete .inprogress file), if no two
\* requests write under one name.
THEOREM OnlyWholeFilesLeave == ASSUME Distinct PROVE Spec => []NothingPartialLeaves
<1>1. StoreInv => NothingPartialLeaves
  BY FullFacts DEF StoreInv, GetterInv, ForwardInv, ForwardOK, NothingPartialLeaves, Files
<1>. QED
  BY <1>1, Storing, PTL

\* A file whose URL was answered is there until a download has had it in full,
\* it has grown old, or a forwarding call that copied it has come to its deferred
\* calls, whatever became of its copy and of the request: no incomplete download,
\* no call that fails before, no clean-up of another file and no restart takes it
\* away, and no forwarding call a saved response.
THEOREM AnsweredFilesStay == ASSUME Distinct PROVE Spec => []KeptUntilTaken
<1>1. StoreInv => KeptUntilTaken
  BY DEF StoreInv, WriterInv, KeepInv, KeptUntilTaken, MayGo
<1>. QED
  BY <1>1, Storing, PTL

\* A download that starts after another has ended with the whole file does not
\* get that file again: links are good once.
THEOREM DeliveredOnce == ASSUME Distinct PROVE Spec => []GoneOnceDelivered
<1>1. StoreInv => GoneOnceDelivered
  BY DEF StoreInv, AfterInv, GoneOnceDelivered
<1>. QED
  BY <1>1, Storing, PTL
=============================================================================
