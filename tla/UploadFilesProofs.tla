--------------------------- MODULE UploadFilesProofs ---------------------------
(***************************************************************************)
(* Theorems of UploadFiles, for any number of uploads, files and names.    *)
(***************************************************************************)
EXTENDS UploadFiles, TLAPS

USE NamesAssumption, NoneAssumption

--------------------------------------------------------------------------------
(* Files. *)

\* A function from names to contents is a state of a directory.
LEMMA FilesType ==
    ASSUME NEW names \in SUBSET Names, NEW files \in [names -> Contents]
    PROVE  files \in Files
<1>1. [names -> Contents] \in {[some -> Contents] : some \in SUBSET Names}
  BY Zenon
<1>. QED  BY <1>1, Zenon DEF Files

\* So is the empty one.
LEMMA NoFilesType == NoFiles \in Files /\ DOMAIN NoFiles = {}
<1>1. NoFiles \in [{} -> Contents]
  BY DEF NoFiles
<1>. QED  BY <1>1, FilesType DEF NoFiles

\* A file more, or another version of one.
LEMMA WriteType ==
    ASSUME NEW files \in Files, NEW n \in Names, NEW c \in Contents
    PROVE  /\ Write(files, n, c) \in Files
           /\ DOMAIN Write(files, n, c) = DOMAIN files \cup {n}
           /\ Write(files, n, c)[n] = c
           /\ \A m \in DOMAIN files \ {n} : Write(files, n, c)[m] = files[m]
<1>1. PICK names \in SUBSET Names : files \in [names -> Contents]
  BY DEF Files
<1>2. Write(files, n, c) \in [names \cup {n} -> Contents]
  BY <1>1 DEF Write
<1>3. Write(files, n, c) \in Files
  BY <1>2, FilesType
<1>. QED  BY <1>3 DEF Write

\* Some files of a directory.
LEMMA SomeFilesType ==
    ASSUME NEW files \in Files, NEW names
    PROVE  /\ Restrict(files, DOMAIN files \cap names) \in Files
           /\ DOMAIN Restrict(files, DOMAIN files \cap names) = DOMAIN files \cap names
           /\ \A n \in DOMAIN files \cap names :
                 Restrict(files, DOMAIN files \cap names)[n] = files[n]
<1>1. PICK all \in SUBSET Names : files \in [all -> Contents]
  BY DEF Files
<1>2. Restrict(files, DOMAIN files \cap names) \in [all \cap names -> Contents]
  BY <1>1 DEF Restrict
<1>3. Restrict(files, DOMAIN files \cap names) \in Files
  BY <1>2, FilesType
<1>. QED  BY <1>3 DEF Restrict

\* A name is one segment, or has a first one that is a folder.
LEMMA NameType ==
    ASSUME NEW n \in Names
    PROVE  Len(n) \in Nat /\ Len(n) >= 1 /\ n[1] \in Segments
<1>1. n \in Seq(Segments) /\ n # <<>>
  OBVIOUS
<1>. QED  BY <1>1

\* A name gives a root folder exactly when it has a folder, and then its first.
LEMMA RootOfType ==
    ASSUME NEW n \in Names
    PROVE  /\ RootOf(n) \in Segments \cup {NoRoot, Here}
           /\ RootOf(n) \in Segments <=> Len(n) > 1
           /\ RootOf(n) \in Segments => RootOf(n) = n[1]
BY NameType DEF RootOf

--------------------------------------------------------------------------------
(* The invariant. *)

\* What is known of a directory while its parts are read: which files are in it, and
\* what the root, the count and the last file tell about those that were sent.
Known(d) ==
    /\ DOMAIN sent[d] = DOMAIN disk[d] \cup missed[d]
    /\ \A n \in DOMAIN disk[d] \ missed[d] : disk[d][n] = sent[d][n]
    /\ upload[d].root = NoRoot => \A n \in DOMAIN sent[d] : Len(n) = 1
    /\ upload[d].root \in Segments =>
          \E n \in DOMAIN sent[d] : Len(n) > 1 /\ n[1] = upload[d].root
    /\ upload[d].count = 0 => DOMAIN sent[d] = {}
    /\ upload[d].count = 1 /\ upload[d].last # NoFile => DOMAIN sent[d] = {upload[d].last}

\* UploadedBagIsWhole, of files that are to be the bag of d.
WholeIn(d, files) ==
    /\ DOMAIN files \subseteq DOMAIN sent[d]
    /\ \A n \in DOMAIN files \ missed[d] : files[n] = sent[d][n]
    /\ InOnePlace(DOMAIN sent[d]) => DOMAIN sent[d] \ DOMAIN files \subseteq missed[d]

\* The directory d has the files of bag b.
Has(d, b) ==
    \A n \in DOMAIN b.files : n \in DOMAIN disk[d] /\ disk[d][n] = b.files[n]

DirInv(d) ==
    /\ upload[d].pc \in {"unused", "reading", "stored"} => Known(d)
    /\ upload[d].pc \in {"created", "done"} =>
          /\ upload[d].bag \in DOMAIN daemon
          /\ Has(d, upload[d].bag)
          /\ WholeIn(d, upload[d].bag.files)

\* The daemon serves a bag from a directory that was made into it.
ServedFrom(b) ==
    /\ upload[daemon[b]].bag = b
    /\ upload[daemon[b]].pc \in {"created", "done", "failed"}

UploadInv ==
    /\ TypeOK
    /\ \A d \in Dirs : DirInv(d)
    /\ \A b \in DOMAIN daemon : ServedFrom(b)

--------------------------------------------------------------------------------
(* The bag of a directory. *)

\* The path given to the daemon leaves out no file of an upload with one root, and the
\* bag is what lies there.
LEMMA BagIsWhole ==
    ASSUME TypeOK, NEW d \in Dirs, Known(d)
    PROVE  /\ BagAt(d) \in Bag
           /\ Has(d, BagAt(d))
           /\ WholeIn(d, BagAt(d).files)
<1>. DEFINE names == Path(d).names  files == BagAt(d).files
<1>1. /\ upload[d] \in UploadState /\ disk[d] \in Files
      /\ sent[d] \in Files
  BY DEF TypeOK
<1>2. DOMAIN sent[d] \subseteq Names
  BY <1>1 DEF Files
<1>3. files = Restrict(disk[d], DOMAIN disk[d] \cap names)
  BY DEF BagAt
<1>4. /\ files \in Files /\ DOMAIN files = DOMAIN disk[d] \cap names
      /\ \A n \in DOMAIN files : files[n] = disk[d][n]
  <2>. DEFINE kept == Restrict(disk[d], DOMAIN disk[d] \cap names)
  <2>. HIDE DEF names, files
  <2>1. /\ kept \in Files /\ DOMAIN kept = DOMAIN disk[d] \cap names
        /\ \A n \in DOMAIN disk[d] \cap names : kept[n] = disk[d][n]
    BY <1>1, SomeFilesType, Zenon
  <2>2. files = kept
    BY <1>3
  <2>. HIDE DEF kept
  <2>. QED  BY <2>1, <2>2
<1>5. BagAt(d) \in Bag
  <2>1. Path(d).base \in Segments \cup Names \cup Dirs
    BY <1>1 DEF Path, UploadState
  <2>. QED  BY <1>4, <2>1 DEF BagAt, Bag
<1>6. Has(d, BagAt(d))
  BY <1>4 DEF Has
<1>7. ASSUME InOnePlace(DOMAIN sent[d]) PROVE DOMAIN sent[d] \subseteq names
  <2>1. CASE upload[d].root \in Segments
    <3>1. PICK m \in DOMAIN sent[d] : Len(m) > 1 /\ m[1] = upload[d].root
      BY <2>1 DEF Known
    <3>2. PICK s \in Segments : \A n \in DOMAIN sent[d] : Len(n) > 1 /\ n[1] = s
      <4>1. Len(m) \in Nat
        BY <1>2, NameType, Zenon
      <4>2. Len(m) # 1
        <5>1. \A k \in Nat : k > 1 => k # 1
          OBVIOUS
        <5>. QED  BY <3>1, <4>1, <5>1, Zenon
      <4>. QED  BY <1>7, <4>2, Zenon DEF InOnePlace
    <3>3. s = upload[d].root
      BY <3>1, <3>2
    <3>. QED  BY <1>2, <2>1, <3>2, <3>3 DEF Path
  <2>2. CASE /\ upload[d].root \notin Segments
             /\ upload[d].count = 1 /\ upload[d].root = NoRoot /\ upload[d].last # NoFile
    BY <2>2 DEF Path, Known
  <2>3. CASE /\ upload[d].root \notin Segments
             /\ ~(upload[d].count = 1 /\ upload[d].root = NoRoot /\ upload[d].last # NoFile)
    BY <1>2, <2>3 DEF Path
  <2>. QED  BY <2>1, <2>2, <2>3
<1>8. WholeIn(d, files)
  <2>. HIDE DEF names, files
  <2>1. DOMAIN files \subseteq DOMAIN sent[d]
    BY <1>4 DEF Known
  <2>2. \A n \in DOMAIN files \ missed[d] : files[n] = sent[d][n]
    BY <1>4 DEF Known
  <2>3. InOnePlace(DOMAIN sent[d]) => DOMAIN sent[d] \ DOMAIN files \subseteq missed[d]
    BY <1>4, <1>7 DEF Known
  <2>. QED  BY <2>1, <2>2, <2>3 DEF WholeIn
<1>. QED  BY <1>5, <1>6, <1>8

--------------------------------------------------------------------------------
(* The steps. *)

\* What happens to other directories, and to bags that come to the daemon, leaves what is
\* known of a directory.
LEMMA OthersKeep ==
    ASSUME NEW d \in Dirs, DirInv(d), DOMAIN daemon \subseteq DOMAIN daemon',
           disk'[d] = disk[d], upload'[d] = upload[d], sent'[d] = sent[d], missed'[d] = missed[d]
    PROVE  DirInv(d)'
BY DEF DirInv, Known, Has, WholeIn

\* Nothing has to be known of an upload that has failed.
LEMMA FailedKeeps ==
    ASSUME NEW d \in Dirs, upload'[d].pc = "failed"
    PROVE  DirInv(d)'
BY DEF DirInv

\* The daemon serves what it served as long as the directory is not made into another bag.
LEMMA ServedKeeps ==
    ASSUME NEW b \in DOMAIN daemon, ServedFrom(b), daemon'[b] = daemon[b],
           upload'[daemon[b]].bag = upload[daemon[b]].bag,
           upload'[daemon[b]].pc \in {upload[daemon[b]].pc, "done", "failed"}
    PROVE  ServedFrom(b)'
BY DEF ServedFrom

\* A part with a file.
LEMMA ReadFileKeeps ==
    ASSUME UploadInv, NEW d \in Dirs, NEW n \in Names, NEW c \in Contents,
           NEW created \in BOOLEAN, ReadFile(d, n, c, created)
    PROVE  UploadInv'
<1>1. /\ disk \in [Dirs -> Files] /\ upload \in [Dirs -> UploadState] /\ sent \in [Dirs -> Files]
      /\ missed \in [Dirs -> SUBSET Names]
      /\ UNCHANGED <<daemon, recorded>> /\ upload[d].pc = "reading"
  BY DEF UploadInv, TypeOK, ReadFile
<1>2. /\ upload'[d].pc = "reading" /\ upload'[d].count = upload[d].count + 1
      /\ upload'[d].root = NextRoot(upload[d].root, n) /\ upload'[d].last = n
      /\ upload'[d].bag = upload[d].bag
      /\ upload' \in [Dirs -> UploadState]
      /\ \A e \in Dirs \ {d} : upload'[e] = upload[e]
  <2>. DEFINE next == [upload[d] EXCEPT !.count = @ + 1, !.root = NextRoot(@, n), !.last = n]
  <2>1. upload' = [upload EXCEPT ![d] = next]
    BY Zenon DEF ReadFile
  <2>2. NextRoot(upload[d].root, n) \in Segments \cup {NoRoot, Here}
    BY <1>1, RootOfType DEF NextRoot, UploadState
  <2>3. /\ next \in UploadState /\ next.pc = "reading" /\ next.count = upload[d].count + 1
        /\ next.root = NextRoot(upload[d].root, n) /\ next.last = n /\ next.bag = upload[d].bag
    <3>. DEFINE u == upload[d]  r == NextRoot(u.root, n)
    <3>1. /\ u \in UploadState /\ u.pc = "reading"
          /\ r \in Segments \cup {NoRoot, Here}
      BY <1>1, <2>2
    <3>2. next = [u EXCEPT !.count = u.count + 1, !.root = r, !.last = n]
      BY Zenon
    <3>. HIDE DEF u, r, next
    <3>3. next = [pc |-> "reading", count |-> u.count + 1, root |-> r, last |-> n, bag |-> u.bag]
      BY <3>1, <3>2 DEF UploadState
    <3>4. u.count + 1 \in Nat /\ u.bag \in Bag \cup {NoBag}
      BY <3>1 DEF UploadState
    <3>5. next \in UploadState
      BY <3>1, <3>3, <3>4 DEF UploadState
    <3>. QED  BY <3>3, <3>5 DEF u, r
  <2>. HIDE DEF next
  <2>. QED  BY <1>1, <2>1, <2>3
<1>3. /\ sent' \in [Dirs -> Files] /\ DOMAIN sent'[d] = DOMAIN sent[d] \cup {n}
      /\ sent'[d][n] = c /\ \A m \in DOMAIN sent[d] \ {n} : sent'[d][m] = sent[d][m]
      /\ \A e \in Dirs \ {d} : sent'[e] = sent[e]
  <2>1. sent' = [sent EXCEPT ![d] = Write(sent[d], n, c)]
    BY DEF ReadFile
  <2>2. /\ Write(sent[d], n, c) \in Files
        /\ DOMAIN Write(sent[d], n, c) = DOMAIN sent[d] \cup {n}
        /\ Write(sent[d], n, c)[n] = c
        /\ \A m \in DOMAIN sent[d] \ {n} : Write(sent[d], n, c)[m] = sent[d][m]
    <3>1. sent[d] \in Files
      BY <1>1
    <3>. QED  BY <3>1, WriteType, Zenon
  <2>. QED  BY <1>1, <2>1, <2>2
<1>4. /\ disk' \in [Dirs -> Files] /\ missed' \in [Dirs -> SUBSET Names]
      /\ \A e \in Dirs \ {d} : disk'[e] = disk[e] /\ missed'[e] = missed[e]
      /\ DOMAIN sent'[d] = DOMAIN disk'[d] \cup missed'[d]
      /\ \A m \in DOMAIN disk'[d] \ missed'[d] : disk'[d][m] = sent'[d][m]
  <2>1. /\ DOMAIN sent[d] = DOMAIN disk[d] \cup missed[d]
        /\ \A m \in DOMAIN disk[d] \ missed[d] : disk[d][m] = sent[d][m]
    BY <1>1 DEF UploadInv, DirInv, Known
  <2>2. CASE created
    <3>1. missed' = missed /\ disk' = [disk EXCEPT ![d] = Write(disk[d], n, c)]
      BY <2>2 DEF ReadFile
    <3>2. /\ Write(disk[d], n, c) \in Files
          /\ DOMAIN Write(disk[d], n, c) = DOMAIN disk[d] \cup {n}
          /\ Write(disk[d], n, c)[n] = c
          /\ \A m \in DOMAIN disk[d] \ {n} : Write(disk[d], n, c)[m] = disk[d][m]
      <4>1. disk[d] \in Files
        BY <1>1
      <4>. QED  BY <4>1, WriteType, Zenon
    <3>3. /\ disk' \in [Dirs -> Files] /\ DOMAIN disk'[d] = DOMAIN disk[d] \cup {n}
          /\ disk'[d][n] = c /\ \A m \in DOMAIN disk[d] \ {n} : disk'[d][m] = disk[d][m]
          /\ \A e \in Dirs \ {d} : disk'[e] = disk[e]
      BY <1>1, <3>1, <3>2
    <3>4. ASSUME NEW m \in DOMAIN disk'[d] \ missed'[d] PROVE disk'[d][m] = sent'[d][m]
      <4>1. CASE m = n
        BY <1>3, <3>3, <4>1
      <4>2. CASE m # n
        BY <1>3, <2>1, <3>1, <3>3, <4>2
      <4>. QED  BY <4>1, <4>2
    <3>. QED  BY <1>1, <1>3, <2>1, <3>1, <3>3, <3>4
  <2>3. CASE ~created
    <3>1. disk' = disk /\ missed' = [missed EXCEPT ![d] = missed[d] \cup {n}]
      BY <2>3 DEF ReadFile
    <3>2. /\ missed' \in [Dirs -> SUBSET Names] /\ missed'[d] = missed[d] \cup {n}
          /\ \A e \in Dirs \ {d} : missed'[e] = missed[e]
      BY <1>1, <3>1
    <3>3. ASSUME NEW m \in DOMAIN disk'[d] \ missed'[d] PROVE disk'[d][m] = sent'[d][m]
      BY <1>3, <2>1, <3>1, <3>2
    <3>. QED  BY <1>1, <1>3, <2>1, <3>1, <3>2, <3>3
  <2>. QED  BY <2>2, <2>3
<1>5. Known(d)'
  <2>1. /\ upload[d].root \in Segments \cup {NoRoot, Here} /\ upload[d].count \in Nat
        /\ Known(d)
    BY <1>1 DEF UploadInv, DirInv, UploadState
  <2>2. ASSUME upload'[d].root = NoRoot PROVE \A m \in DOMAIN sent'[d] : Len(m) = 1
    <3>1. upload[d].root = NoRoot /\ RootOf(n) = NoRoot
      BY <1>2, <2>2 DEF NextRoot
    <3>2. RootOf(n) \notin Segments
      BY <3>1
    <3>3. Len(n) = 1
      <4>1. \A k \in Nat : k >= 1 /\ ~(k > 1) => k = 1
        OBVIOUS
      <4>2. Len(n) \in Nat /\ Len(n) >= 1 /\ ~(Len(n) > 1)
        BY <3>2, NameType, RootOfType, Zenon
      <4>. QED  BY <4>1, <4>2, Zenon
    <3>4. \A m \in DOMAIN sent[d] : Len(m) = 1
      BY <2>1, <3>1 DEF Known
    <3>. QED  BY <1>3, <3>3, <3>4, Zenon
  <2>3. ASSUME upload'[d].root \in Segments
        PROVE  \E m \in DOMAIN sent'[d] : Len(m) > 1 /\ m[1] = upload'[d].root
    <3>1. CASE upload[d].root = NoRoot
      <4>1. upload'[d].root = RootOf(n)
        BY <1>2, <3>1 DEF NextRoot
      <4>2. Len(n) > 1 /\ n[1] = upload'[d].root
        BY <2>3, <4>1, RootOfType, Zenon
      <4>. QED  BY <1>3, <4>2, Zenon
    <3>2. CASE upload[d].root # NoRoot
      <4>1. upload'[d].root = upload[d].root
        BY <1>2, <3>2 DEF NextRoot
      <4>. QED  BY <1>3, <2>1, <2>3, <4>1, Zenon DEF Known
    <3>. QED  BY <3>1, <3>2
  <2>4. upload'[d].count # 0
    BY <1>2, <2>1
  <2>5. upload'[d].count = 1 => DOMAIN sent'[d] = {upload'[d].last}
    <3>1. upload'[d].count = 1 => upload[d].count = 0
      BY <1>2, <2>1
    <3>. QED  BY <1>2, <1>3, <2>1, <3>1 DEF Known
  <2>. QED  BY <1>4, <2>2, <2>3, <2>4, <2>5, Zenon DEF Known
<1>6. DirInv(d)'
  BY <1>2, <1>5, Zenon DEF DirInv
<1>7. ASSUME NEW e \in Dirs \ {d} PROVE DirInv(e)'
  <2>1. DirInv(e) /\ DOMAIN daemon \subseteq DOMAIN daemon'
    BY <1>1 DEF UploadInv
  <2>. QED  BY <1>2, <1>3, <1>4, <2>1, OthersKeep
<1>8. ASSUME NEW b \in DOMAIN daemon PROVE ServedFrom(b)'
  <2>1. ServedFrom(b) /\ daemon[b] \in Dirs /\ daemon' = daemon
    BY <1>1 DEF UploadInv, TypeOK
  <2>2. upload'[daemon[b]].bag = upload[daemon[b]].bag
        /\ upload'[daemon[b]].pc = upload[daemon[b]].pc
    BY <1>1, <1>2, <2>1
  <2>. QED  BY <2>1, <2>2, ServedKeeps
<1>9. TypeOK'
  BY <1>1, <1>2, <1>3, <1>4 DEF UploadInv, TypeOK
<1>. QED  BY <1>1, <1>6, <1>7, <1>8, <1>9 DEF UploadInv

\* Only the progress of one upload changes.
LEMMA ProgressOf ==
    ASSUME TypeOK, NEW d \in Dirs, NEW pc \in {"reading", "stored", "created", "done", "failed"},
           upload' = [upload EXCEPT ![d].pc = pc]
    PROVE  /\ upload' \in [Dirs -> UploadState]
           /\ upload'[d].pc = pc
           /\ upload'[d].count = upload[d].count /\ upload'[d].root = upload[d].root
           /\ upload'[d].last = upload[d].last /\ upload'[d].bag = upload[d].bag
           /\ \A e \in Dirs \ {d} : upload'[e] = upload[e]
<1>1. upload \in [Dirs -> UploadState]
  BY DEF TypeOK
<1>. DEFINE u == upload[d]  next == [u EXCEPT !.pc = pc]
<1>2. u \in UploadState /\ upload' = [upload EXCEPT ![d] = next]
  BY <1>1
<1>. HIDE DEF u
<1>3. next = [pc |-> pc, count |-> u.count, root |-> u.root, last |-> u.last, bag |-> u.bag]
  BY <1>2 DEF UploadState
<1>. HIDE DEF next
<1>4. next \in UploadState
  BY <1>2, <1>3 DEF UploadState
<1>. QED  BY <1>1, <1>2, <1>3, <1>4 DEF u

\* Another upload goes on.
LEMMA ProgressKeepsOthers ==
    ASSUME UploadInv, NEW d \in Dirs, upload[d].pc # "unused",
           \A e \in Dirs \ {d} : upload'[e] = upload[e] /\ disk'[e] = disk[e],
           UNCHANGED <<sent, missed>>, DOMAIN daemon \subseteq DOMAIN daemon'
    PROVE  \A e \in Dirs \ {d} : DirInv(e)'
BY OthersKeep DEF UploadInv

\* The directory of a failed upload is removed, or not.
LEMMA RemoveAllType ==
    ASSUME TypeOK, NEW d \in Dirs, RemoveAll(d)
    PROVE  disk' \in [Dirs -> Files] /\ \A e \in Dirs \ {d} : disk'[e] = disk[e]
BY NoFilesType DEF RemoveAll, TypeOK

\* An upload that fails before or after its bag is recorded.
LEMMA FailureKeeps ==
    ASSUME UploadInv, NEW d \in Dirs, RemoveAll(d),
           upload[d].pc \in {"reading", "stored", "created"},
           upload' = [upload EXCEPT ![d].pc = "failed"],
           UNCHANGED <<sent, missed, daemon>>, recorded' \subseteq DOMAIN daemon
    PROVE  UploadInv'
<1>1. /\ upload' \in [Dirs -> UploadState] /\ upload'[d].pc = "failed"
      /\ upload'[d].bag = upload[d].bag
      /\ \A e \in Dirs \ {d} : upload'[e] = upload[e]
      /\ disk' \in [Dirs -> Files] /\ \A e \in Dirs \ {d} : disk'[e] = disk[e]
  BY ProgressOf, RemoveAllType DEF UploadInv
<1>2. \A e \in Dirs \ {d} : DirInv(e)'
  BY <1>1, ProgressKeepsOthers
<1>3. DirInv(d)'
  BY <1>1, FailedKeeps
<1>4. ASSUME NEW b \in DOMAIN daemon PROVE ServedFrom(b)'
  <2>1. ServedFrom(b) /\ daemon[b] \in Dirs /\ daemon' = daemon
    BY DEF UploadInv, TypeOK
  <2>2. /\ upload'[daemon[b]].bag = upload[daemon[b]].bag
        /\ upload'[daemon[b]].pc \in {upload[daemon[b]].pc, "failed"}
    BY <1>1, <2>1
  <2>. QED  BY <2>1, <2>2, ServedKeeps
<1>5. TypeOK'
  BY <1>1 DEF UploadInv, TypeOK
<1>. QED  BY <1>2, <1>3, <1>4, <1>5 DEF UploadInv

\* The daemon has made a bag of the directory, whether or not the service hears of it.
LEMMA CreationKeeps ==
    ASSUME UploadInv, NEW d \in Dirs, NEW pc \in {"created", "failed"},
           upload[d].pc = "stored", Serve(BagAt(d), d),
           upload' = [upload EXCEPT ![d].pc = pc, ![d].bag = BagAt(d)],
           \/ pc = "created" /\ disk' = disk
           \/ pc = "failed" /\ RemoveAll(d),
           UNCHANGED <<sent, missed, recorded>>
    PROVE  UploadInv'
<1>0. PICK bag : bag = BagAt(d)
  OBVIOUS
<1>1. /\ TypeOK /\ upload \in [Dirs -> UploadState] /\ Known(d)
      /\ \A e \in DOMAIN daemon : e \in Bag /\ daemon[e] \in Dirs /\ ServedFrom(e)
  BY DEF UploadInv, TypeOK, DirInv
<1>2. bag \in Bag /\ Has(d, bag) /\ WholeIn(d, bag.files)
  BY <1>0, <1>1, BagIsWhole
<1>3. /\ upload' \in [Dirs -> UploadState] /\ upload'[d].pc = pc /\ upload'[d].bag = bag
      /\ \A e \in Dirs \ {d} : upload'[e] = upload[e]
  <2>. DEFINE u == upload[d]  next == [u EXCEPT !.pc = pc, !.bag = bag]
  <2>1. upload' = [upload EXCEPT ![d] = next]
    BY <1>0, Zenon
  <2>2. u \in UploadState
    BY <1>1
  <2>5. next = [u EXCEPT !.pc = pc, !.bag = bag]
    OBVIOUS
  <2>. HIDE DEF u, next
  <2>3. next = [pc |-> pc, count |-> u.count, root |-> u.root, last |-> u.last, bag |-> bag]
    BY <2>2, <2>5 DEF UploadState
  <2>4. next \in UploadState
    BY <1>2, <2>2, <2>3 DEF UploadState
  <2>6. next.pc = pc /\ next.bag = bag
    BY <2>3
  <2>7. upload'[d] = next /\ \A e \in Dirs \ {d} : upload'[e] = upload[e]
    BY <1>1, <2>1
  <2>8. upload' \in [Dirs -> UploadState]
    BY <1>1, <2>1, <2>4
  <2>. QED  BY <2>6, <2>7, <2>8
<1>4. disk' \in [Dirs -> Files] /\ \A e \in Dirs \ {d} : disk'[e] = disk[e]
  BY <1>1, RemoveAllType DEF TypeOK
<1>5. /\ DOMAIN daemon' = DOMAIN daemon \cup {bag}
      /\ daemon'[bag] = d \/ (bag \in DOMAIN daemon /\ daemon' = daemon)
      /\ \A e \in DOMAIN daemon \ {bag} : daemon'[e] = daemon[e]
  BY <1>0 DEF Serve
<1>6. DirInv(d)'
  <2>1. CASE pc = "failed"
    BY <1>3, <2>1, FailedKeeps
  <2>2. CASE pc = "created"
    <3>1. disk' = disk
      BY <2>2
    <3>2. Has(d, bag)' /\ WholeIn(d, bag.files)'
      BY <1>2, <3>1 DEF Has, WholeIn
    <3>. QED  BY <1>3, <1>5, <2>2, <3>2 DEF DirInv
  <2>. QED  BY <2>1, <2>2
<1>7. \A e \in Dirs \ {d} : DirInv(e)'
  BY <1>3, <1>4, <1>5, ProgressKeepsOthers
<1>8. ASSUME NEW b \in DOMAIN daemon' PROVE ServedFrom(b)' /\ b \in Bag /\ daemon'[b] \in Dirs
  <2>1. CASE b = bag /\ daemon'[bag] = d
    BY <1>2, <1>3, <2>1 DEF ServedFrom
  <2>2. CASE b \in DOMAIN daemon /\ daemon'[b] = daemon[b]
    <3>1. ServedFrom(b) /\ daemon[b] \in Dirs /\ b \in Bag
      BY <1>1, <2>2
    <3>2. daemon[b] # d
      BY <3>1 DEF ServedFrom
    <3>. QED  BY <1>3, <2>2, <3>1, <3>2 DEF ServedFrom
  <2>. QED  BY <1>5, <2>1, <2>2
<1>9. TypeOK'
  BY <1>1, <1>3, <1>4, <1>5, <1>8 DEF TypeOK
<1>. QED  BY <1>6, <1>7, <1>8, <1>9 DEF UploadInv

\* A step that changes the progress of one upload only, and not into a bag.
LEMMA ReadingKeeps ==
    ASSUME UploadInv, NEW d \in Dirs, upload[d].pc \in {"unused", "reading"},
           upload' \in [Dirs -> UploadState],
           upload'[d].pc \in {"reading", "stored"},
           upload'[d].count = upload[d].count, upload'[d].root = upload[d].root,
           upload'[d].last \in {upload[d].last, NoFile},
           \A e \in Dirs \ {d} : upload'[e] = upload[e],
           UNCHANGED <<disk, sent, missed, daemon, recorded>>
    PROVE  UploadInv'
<1>1. TypeOK /\ Known(d)
  BY DEF UploadInv, DirInv
<1>2. Known(d)'
  BY <1>1 DEF Known
<1>3. DirInv(d)'
  BY <1>2, Zenon DEF DirInv
<1>4. \A e \in Dirs \ {d} : DirInv(e)'
  BY OthersKeep DEF UploadInv
<1>5. ASSUME NEW b \in DOMAIN daemon PROVE ServedFrom(b)'
  BY <1>1 DEF UploadInv, ServedFrom, TypeOK
<1>6. TypeOK'
  BY <1>1 DEF TypeOK
<1>. QED  BY <1>3, <1>4, <1>5, <1>6 DEF UploadInv

\* A named part without a file.
LEMMA ReadFieldKeeps ==
    ASSUME UploadInv, NEW d \in Dirs, ReadField(d)
    PROVE  UploadInv'
<1>. DEFINE u == upload[d]  next == [u EXCEPT !.last = NoFile]
<1>1. /\ u \in UploadState /\ u.pc = "reading" /\ upload \in [Dirs -> UploadState]
      /\ upload' = [upload EXCEPT ![d] = next]
      /\ UNCHANGED <<disk, sent, missed, daemon, recorded>>
  BY DEF ReadField, UploadInv, TypeOK
<1>2. next = [u EXCEPT !.last = NoFile]
  OBVIOUS
<1>. HIDE DEF u, next
<1>3. next = [pc |-> u.pc, count |-> u.count, root |-> u.root, last |-> NoFile, bag |-> u.bag]
  BY <1>1, <1>2 DEF UploadState
<1>4. next \in UploadState
  BY <1>1, <1>3 DEF UploadState
<1>5. /\ next.pc = "reading" /\ next.count = u.count /\ next.root = u.root /\ next.last = NoFile
  BY <1>1, <1>3
<1>6. /\ upload' \in [Dirs -> UploadState] /\ upload'[d] = next
      /\ \A e \in Dirs \ {d} : upload'[e] = upload[e]
  BY <1>1, <1>4
<1>. QED  BY <1>1, <1>5, <1>6, ReadingKeeps DEF u

\* An upload begins, or has read its last part.
LEMMA StageKeeps ==
    ASSUME UploadInv, NEW d \in Dirs, Begin(d) \/ EndOfParts(d)
    PROVE  UploadInv'
<1>1. PICK pc \in {"reading", "stored"} :
        /\ upload' = [upload EXCEPT ![d].pc = pc]
        /\ upload[d].pc \in {"unused", "reading"}
        /\ UNCHANGED <<disk, sent, missed, daemon, recorded>>
  BY DEF Begin, EndOfParts
<1>. QED  BY <1>1, ProgressOf, ReadingKeeps DEF UploadInv

\* The bag that the daemon made is recorded.
LEMMA SaveKeeps ==
    ASSUME UploadInv, NEW d \in Dirs, SaveBag(d)
    PROVE  UploadInv'
<1>1. /\ TypeOK /\ upload[d].pc = "created" /\ upload' = [upload EXCEPT ![d].pc = "done"]
      /\ recorded' = recorded \cup {upload[d].bag} /\ UNCHANGED <<disk, sent, missed, daemon>>
      /\ DirInv(d)
  BY DEF SaveBag, UploadInv
<1>2. /\ upload' \in [Dirs -> UploadState] /\ upload'[d].pc = "done"
      /\ upload'[d].bag = upload[d].bag
      /\ \A e \in Dirs \ {d} : upload'[e] = upload[e]
  BY <1>1, ProgressOf
<1>3. upload[d].bag \in DOMAIN daemon
  BY <1>1 DEF DirInv
<1>4. DirInv(d)'
  BY <1>1, <1>2 DEF DirInv, Has, WholeIn
<1>5. \A e \in Dirs \ {d} : DirInv(e)'
  BY <1>1, <1>2, ProgressKeepsOthers
<1>6. ASSUME NEW b \in DOMAIN daemon PROVE ServedFrom(b)'
  <2>1. ServedFrom(b) /\ daemon[b] \in Dirs
    BY <1>1 DEF UploadInv, TypeOK
  <2>2. /\ upload'[daemon[b]].bag = upload[daemon[b]].bag
        /\ upload'[daemon[b]].pc \in {upload[daemon[b]].pc, "done"}
    BY <1>2, <2>1
  <2>. QED  BY <1>1, <2>1, <2>2, ServedKeeps
<1>7. TypeOK'
  BY <1>1, <1>2, <1>3 DEF TypeOK
<1>. QED  BY <1>1, <1>4, <1>5, <1>6, <1>7 DEF UploadInv

\* The process stops in the middle of uploads.
LEMMA RestartKeeps ==
    ASSUME UploadInv, Restart
    PROVE  UploadInv'
<1>1. TypeOK /\ UNCHANGED <<disk, sent, missed, daemon, recorded>>
  BY DEF UploadInv, Restart
<1>2. ASSUME NEW d \in Dirs
      PROVE  /\ upload'[d] \in UploadState
             /\ upload'[d].bag = upload[d].bag
             /\ upload'[d] = upload[d] \/ upload'[d].pc = "failed"
  <2>. DEFINE u == upload[d]  next == [u EXCEPT !.pc = "failed"]
  <2>1. u \in UploadState
    BY <1>1 DEF TypeOK
  <2>2. upload'[d] = u \/ upload'[d] = next
    BY DEF Restart
  <2>3. next = [u EXCEPT !.pc = "failed"]
    OBVIOUS
  <2>. HIDE DEF u, next
  <2>4. next = [pc |-> "failed", count |-> u.count, root |-> u.root, last |-> u.last, bag |-> u.bag]
    BY <2>1, <2>3 DEF UploadState
  <2>5. next \in UploadState /\ next.pc = "failed" /\ next.bag = u.bag
    BY <2>1, <2>4 DEF UploadState
  <2>. QED  BY <2>1, <2>2, <2>5 DEF u
<1>3. upload' \in [Dirs -> UploadState]
  <2>. DEFINE next(d) == IF upload[d].pc \in {"reading", "stored", "created"}
                         THEN [upload[d] EXCEPT !.pc = "failed"]
                         ELSE upload[d]
  <2>1. upload' = [d \in Dirs |-> next(d)]
    BY Zenon DEF Restart
  <2>2. \A d \in Dirs : next(d) \in UploadState
    <3>. TAKE d \in Dirs
    <3>1. upload'[d] = next(d)
      BY <2>1, Zenon
    <3>. QED  BY <1>2, <3>1, Zenon
  <2>. HIDE DEF next
  <2>. QED  BY <2>1, <2>2
<1>4. ASSUME NEW d \in Dirs PROVE DirInv(d)'
  <2>1. CASE upload'[d] = upload[d]
    BY <1>1, <2>1, OthersKeep DEF UploadInv
  <2>2. CASE upload'[d].pc = "failed"
    BY <2>2, FailedKeeps
  <2>. QED  BY <1>2, <2>1, <2>2
<1>5. ASSUME NEW b \in DOMAIN daemon PROVE ServedFrom(b)'
  <2>1. ServedFrom(b) /\ daemon[b] \in Dirs /\ daemon' = daemon
    BY <1>1 DEF UploadInv, TypeOK
  <2>2. /\ upload'[daemon[b]].bag = upload[daemon[b]].bag
        /\ upload'[daemon[b]].pc \in {upload[daemon[b]].pc, "failed"}
    BY <1>2, <2>1
  <2>. QED  BY <2>1, <2>2, ServedKeeps
<1>6. TypeOK'
  BY <1>1, <1>3 DEF TypeOK
<1>. QED  BY <1>1, <1>4, <1>5, <1>6 DEF UploadInv

--------------------------------------------------------------------------------
(* Every reachable state. *)

\* Every step keeps the invariant.
LEMMA UploadInductive ==
    ASSUME UploadInv, [Next]_vars
    PROVE  UploadInv'
<1>1. TypeOK /\ \A d \in Dirs : DirInv(d)
  BY DEF UploadInv
<1>2. CASE \E d \in Dirs : Begin(d) \/ EndOfParts(d)
  BY <1>2, StageKeeps
<1>3. CASE \E d \in Dirs, n \in Names, c \in Contents, created \in BOOLEAN :
             ReadFile(d, n, c, created)
  BY <1>3, ReadFileKeeps
<1>4. CASE \E d \in Dirs : ReadField(d)
  BY <1>4, ReadFieldKeeps
<1>5. ASSUME NEW d \in Dirs, FailUpload(d) PROVE UploadInv'
  <2>1. recorded' \subseteq DOMAIN daemon
    BY <1>1, <1>5 DEF FailUpload, TypeOK
  <2>. QED  BY <1>5, <2>1, FailureKeeps DEF FailUpload
<1>6. ASSUME NEW d \in Dirs, CreateBag(d) PROVE UploadInv'
  BY <1>6, CreationKeeps DEF CreateBag
<1>7. ASSUME NEW d \in Dirs, CreateUnanswered(d) PROVE UploadInv'
  BY <1>7, CreationKeeps DEF CreateUnanswered
<1>8. CASE \E d \in Dirs : SaveBag(d)
  BY <1>8, SaveKeeps
<1>9. ASSUME NEW d \in Dirs, SaveUnanswered(d) PROVE UploadInv'
  <2>1. recorded' \subseteq DOMAIN daemon
    BY <1>1, <1>9 DEF SaveUnanswered, TypeOK, DirInv
  <2>. QED  BY <1>9, <2>1, FailureKeeps DEF SaveUnanswered
<1>10. CASE Restart
  BY <1>10, RestartKeeps
<1>11. CASE UNCHANGED vars
  <2>1. UNCHANGED <<disk, upload, sent, missed, daemon, recorded>>
    BY <1>11 DEF vars
  <2>2. TypeOK'
    BY <1>1, <2>1 DEF TypeOK
  <2>3. \A d \in Dirs : DirInv(d)'
    BY <1>1, <2>1, OthersKeep
  <2>4. \A b \in DOMAIN daemon : ServedFrom(b)'
    BY <2>1 DEF UploadInv, ServedFrom
  <2>. QED  BY <2>1, <2>2, <2>3, <2>4 DEF UploadInv
<1>. QED
  BY <1>2, <1>3, <1>4, <1>5, <1>6, <1>7, <1>8, <1>9, <1>10, <1>11, Zenon DEF Next

\* The invariant holds in every reachable state.
LEMMA UploadInvariant == Spec => []UploadInv
<1>1. Init => UploadInv
  <2>. SUFFICES ASSUME Init PROVE UploadInv
    OBVIOUS
  <2>1. /\ Unused \in UploadState /\ Unused.pc = "unused" /\ Unused.root = NoRoot
        /\ Unused.count = 0
    BY DEF Unused, UploadState
  <2>2. TypeOK
    BY <2>1, NoFilesType DEF Init, TypeOK
  <2>3. \A d \in Dirs : DirInv(d)
    <3>. TAKE d \in Dirs
    <3>1. /\ disk[d] = NoFiles /\ sent[d] = NoFiles /\ missed[d] = {} /\ upload[d] = Unused
      BY DEF Init
    <3>2. Known(d)
      BY <2>1, <3>1, NoFilesType DEF Known
    <3>. QED  BY <2>1, <3>1, <3>2 DEF DirInv
  <2>4. DOMAIN daemon = {}
    BY DEF Init
  <2>. QED  BY <2>2, <2>3, <2>4 DEF UploadInv
<1>2. UploadInv /\ [Next]_vars => UploadInv'
  BY UploadInductive
<1>. QED  BY <1>1, <1>2, PTL DEF Spec

\* The state of every upload, of the disk and of the daemon keeps its type: the daemon
\* and the table of bags know no bag that was not made of a directory of an upload.
THEOREM UploadsTypeCorrect == Spec => []TypeOK
<1>1. UploadInv => TypeOK
  BY DEF UploadInv
<1>. QED  BY <1>1, UploadInvariant, PTL

\* AddFiles tells a client of a bag only when the bag is what the client sent, whatever
\* the order and the names of the parts and whatever other uploads do meanwhile.
THEOREM UploadsAreWhole == Spec => []UploadedBagIsWhole
<1>1. UploadInv => UploadedBagIsWhole
  BY DEF UploadInv, DirInv, WholeIn, UploadedBagIsWhole
<1>. QED  BY <1>1, UploadInvariant, PTL

\* The directory a recorded bag is served from has its files, unless an upload of the same
\* bag has failed after Create: no other upload's deferred RemoveAll reaches it.
THEOREM RecordedBagsAreServed == Spec => []RecordedBagIsServed
<1>1. UploadInv => RecordedBagIsServed
  <2>. SUFFICES ASSUME UploadInv, NEW b \in recorded,
                       ~ \E d \in Dirs : upload[d].pc = "failed" /\ upload[d].bag = b
                PROVE  Served(b)
    BY DEF RecordedBagIsServed
  <2>1. b \in DOMAIN daemon /\ daemon[b] \in Dirs /\ ServedFrom(b) /\ DirInv(daemon[b])
    BY DEF UploadInv, TypeOK
  <2>2. upload[daemon[b]].pc \in {"created", "done"} /\ upload[daemon[b]].bag = b
    BY <2>1 DEF ServedFrom
  <2>. QED  BY <2>1, <2>2 DEF DirInv, Has, Served
<1>. QED  BY <1>1, UploadInvariant, PTL
================================================================================
