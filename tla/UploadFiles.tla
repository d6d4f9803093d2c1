------------------------------ MODULE UploadFiles ------------------------------
(***************************************************************************)
(* AddFiles of pkg/services/files file by file: from the directory of its  *)
(* own that every upload gets, through the parts of the multipart body, to *)
(* the bag that the storage daemon makes of the directory and the row in   *)
(* files.bags.  CanUpload and the check of the disk space come before      *)
(* that and are in BagLifecycle, as are the ends of a bag.                 *)
(*                                                                         *)
(* A file name is the sequence of the segments of the cleaned path.  Paths *)
(* with a leading slash are left out: browsers send relative ones.         *)
(***************************************************************************)
EXTENDS Integers, Sequences, Functions

CONSTANTS
    Dirs,           \* the directories under storageDir, named by fresh UUIDs
    Segments,       \* segments of file names
    Names,          \* cleaned file names
    Backslashed,    \* the names of one segment that has a backslash in it
    Contents,       \* contents of files
    MaxFilesCount,  \* the parameter max_files_count; 0 is no limit
    NoRoot,         \* rootDir = ""
    Here,           \* rootDir = "."
    NoFile,         \* lastFileName = ".": the last part was no file
    NoBag           \* an upload of which the daemon has made no bag

ASSUME NamesAssumption ==
    /\ Names \subseteq Seq(Segments) \ {<<>>}
    /\ Backslashed \subseteq {n \in Names : Len(n) = 1}
ASSUME LimitAssumption == MaxFilesCount \in Nat
ASSUME NoneAssumption ==
    /\ NoRoot \notin Segments /\ Here \notin Segments /\ NoRoot # Here
    /\ NoFile \notin Names

VARIABLES
    disk,      \* the files under each directory: a function from names to contents
    upload,    \* the AddFiles call that owns each directory
    sent,      \* the files the client sent, in their last versions
    missed,    \* the names of the files that os.Create has refused
    daemon,    \* the bags of the storage daemon, and the directory it serves each from
    recorded   \* the bags in files.bags that were uploaded

vars == <<disk, upload, sent, missed, daemon, recorded>>

NoFiles == [n \in {} |-> n]

Files == UNION {[names -> Contents] : names \in SUBSET Names}

\* A bag is identified by what is in it and by the name of what it was made of.
Bag == [base : Segments \cup Names \cup Dirs, files : Files]

UploadState == [pc    : {"unused", "reading", "stored", "created", "done", "failed"},
                count : Nat,
                root  : Segments \cup {NoRoot, Here},
                last  : Names \cup {NoFile},
                bag   : Bag \cup {NoBag}]

Unused == [pc |-> "unused", count |-> 0, root |-> NoRoot, last |-> NoFile, bag |-> NoBag]

TypeOK ==
    /\ disk \in [Dirs -> Files]
    /\ upload \in [Dirs -> UploadState]
    /\ sent \in [Dirs -> Files]
    /\ missed \in [Dirs -> SUBSET Names]
    /\ DOMAIN daemon \subseteq Bag
    /\ \A b \in DOMAIN daemon : daemon[b] \in Dirs
    /\ recorded \subseteq DOMAIN daemon

Init ==
    /\ disk = [d \in Dirs |-> NoFiles]
    /\ upload = [d \in Dirs |-> Unused]
    /\ sent = [d \in Dirs |-> NoFiles]
    /\ missed = [d \in Dirs |-> {}]
    /\ daemon = [b \in {} |-> b]
    /\ recorded = {}

--------------------------------------------------------------------------------
(* The files of one part. *)

\* Mutant of Write: the folders of the name are lost.
WriteAtTop(files, n, c) ==
    [m \in DOMAIN files \cup {<<n[Len(n)]>>} |-> IF m = <<n[Len(n)]>> THEN c ELSE files[m]]

Write(files, n, c) == [m \in DOMAIN files \cup {n} |-> IF m = n THEN c ELSE files[m]]

\* m is a directory on the way to n.
IsAbove(m, n) == Len(m) < Len(n) /\ SubSeq(n, 1, Len(m)) = m

\* MkdirAll meets a file where it needs a directory.
IsUnderAFile(files, n) == \E m \in DOMAIN files : IsAbove(m, n)

\* os.Create meets a directory where it needs a file.
IsADirectory(names, n) == \E m \in names : IsAbove(n, m)

RootOf(n) == IF Len(n) > 1 THEN n[1] ELSE IF n \in Backslashed THEN Here ELSE NoRoot

\* The first file with a folder decides.
NextRoot(root, n) == IF root = NoRoot THEN RootOf(n) ELSE root

TooManyFiles(d) == MaxFilesCount > 0 /\ upload[d].count >= MaxFilesCount

--------------------------------------------------------------------------------

\* MkdirAll of a fresh directory.
Begin(d) ==
    /\ upload[d].pc = "unused"
    /\ upload' = [upload EXCEPT ![d].pc = "reading"]
    /\ UNCHANGED <<disk, sent, missed, daemon, recorded>>

\* A part with a file.  The error of os.Create is lost (created is then FALSE): the
\* named result that is returned is still nil.
ReadFile(d, n, c, created) ==
    /\ upload[d].pc = "reading"
    /\ ~TooManyFiles(d)
    /\ ~IsUnderAFile(disk[d], n)
    /\ created => ~IsADirectory(DOMAIN disk[d] \cup missed[d], n)
    /\ upload' = [upload EXCEPT ![d].count = @ + 1,
                                ![d].root = NextRoot(@, n),
                                ![d].last = n]
    /\ disk' = IF created THEN [disk EXCEPT ![d] = Write(@, n, c)] ELSE disk
    /\ missed' = IF created THEN missed ELSE [missed EXCEPT ![d] = @ \cup {n}]
    /\ sent' = [sent EXCEPT ![d] = Write(@, n, c)]
    /\ UNCHANGED <<daemon, recorded>>

\* A named part without a file: the description, or a file input left empty.
ReadField(d) ==
    /\ upload[d].pc = "reading"
    /\ ~TooManyFiles(d)
    /\ upload' = [upload EXCEPT ![d].last = NoFile]
    /\ UNCHANGED <<disk, sent, missed, daemon, recorded>>

EndOfParts(d) ==
    /\ upload[d].pc = "reading"
    /\ upload[d].count > 0
    /\ upload' = [upload EXCEPT ![d].pc = "stored"]
    /\ UNCHANGED <<disk, sent, missed, daemon, recorded>>

\* Mutant of Path: the number of the files is not looked at.
PathOfLast(d) ==
    IF upload[d].root \in Segments
    THEN [base |-> upload[d].root, names |-> {n \in Names : Len(n) > 1 /\ n[1] = upload[d].root}]
    ELSE IF upload[d].root = NoRoot /\ upload[d].last # NoFile
    THEN [base |-> upload[d].last, names |-> {upload[d].last}]
    ELSE [base |-> d, names |-> Names]

\* The path given to the daemon: the root folder, the only file, or the directory.
Path(d) ==
    IF upload[d].root \in Segments
    THEN [base |-> upload[d].root, names |-> {n \in Names : Len(n) > 1 /\ n[1] = upload[d].root}]
    ELSE IF upload[d].count = 1 /\ upload[d].root = NoRoot /\ upload[d].last # NoFile
    THEN [base |-> upload[d].last, names |-> {upload[d].last}]
    ELSE [base |-> d, names |-> Names]

BagAt(d) ==
    [base |-> Path(d).base, files |-> Restrict(disk[d], DOMAIN disk[d] \cap Path(d).names)]

\* Mutant of RemoveAll: the directory of all uploads goes.
RemoveStorageDir(d) == disk' = [x \in Dirs |-> NoFiles]

\* The deferred RemoveAll, whose error is only logged.
RemoveAll(d) ==
    \/ disk' = [disk EXCEPT ![d] = NoFiles]
    \/ disk' = disk

--------------------------------------------------------------------------------
(* The end of an upload. *)

\* An error return: a part that cannot be read or saved, a bad name, too many files
\* or none, an error of Create, GetBag or AddBag.
FailUpload(d) ==
    /\ upload[d].pc \in {"reading", "stored", "created"}
    /\ upload' = [upload EXCEPT ![d].pc = "failed"]
    /\ RemoveAll(d)
    /\ UNCHANGED <<sent, missed, daemon, recorded>>

\* The daemon makes the bag or has it already; it then goes on to serve the old
\* directory or changes to the new one.
Serve(b, d) ==
    \/ daemon' = [x \in DOMAIN daemon \cup {b} |-> IF x = b THEN d ELSE daemon[x]]
    \/ b \in DOMAIN daemon /\ daemon' = daemon

CreateBag(d) ==
    /\ upload[d].pc = "stored"
    /\ DOMAIN BagAt(d).files # {}
    /\ Serve(BagAt(d), d)
    /\ upload' = [upload EXCEPT ![d].pc = "created", ![d].bag = BagAt(d)]
    /\ UNCHANGED <<disk, sent, missed, recorded>>

\* The bag is made and the answer lost, or later than the two minutes of the client.
CreateUnanswered(d) ==
    /\ upload[d].pc = "stored"
    /\ DOMAIN BagAt(d).files # {}
    /\ Serve(BagAt(d), d)
    /\ upload' = [upload EXCEPT ![d].pc = "failed", ![d].bag = BagAt(d)]
    /\ RemoveAll(d)
    /\ UNCHANGED <<sent, missed, recorded>>

\* GetBag, and AddBag.
SaveBag(d) ==
    /\ upload[d].pc = "created"
    /\ upload' = [upload EXCEPT ![d].pc = "done"]
    /\ recorded' = recorded \cup {upload[d].bag}
    /\ UNCHANGED <<disk, sent, missed, daemon>>

\* AddBag commits and its answer is lost.
SaveUnanswered(d) ==
    /\ upload[d].pc = "created"
    /\ upload' = [upload EXCEPT ![d].pc = "failed"]
    /\ recorded' = recorded \cup {upload[d].bag}
    /\ RemoveAll(d)
    /\ UNCHANGED <<sent, missed, daemon>>

\* The process stops: nothing is cleaned up, then or later.
Restart ==
    /\ upload' = [d \in Dirs |-> IF upload[d].pc \in {"reading", "stored", "created"}
                                 THEN [upload[d] EXCEPT !.pc = "failed"]
                                 ELSE upload[d]]
    /\ UNCHANGED <<disk, sent, missed, daemon, recorded>>

Next ==
    \/ \E d \in Dirs : Begin(d)
    \/ \E d \in Dirs, n \in Names, c \in Contents, created \in BOOLEAN :
          ReadFile(d, n, c, created)
    \/ \E d \in Dirs : ReadField(d)
    \/ \E d \in Dirs : EndOfParts(d)
    \/ \E d \in Dirs : FailUpload(d)
    \/ \E d \in Dirs : CreateBag(d)
    \/ \E d \in Dirs : CreateUnanswered(d)
    \/ \E d \in Dirs : SaveBag(d)
    \/ \E d \in Dirs : SaveUnanswered(d)
    \/ Restart

Spec == Init /\ [][Next]_vars

--------------------------------------------------------------------------------
(* Safety. *)

\* The names lie in one folder, or none of them in any.
InOnePlace(names) ==
    \/ \A n \in names : Len(n) = 1
    \/ \E s \in Segments : \A n \in names : Len(n) > 1 /\ n[1] = s

\* What a client was told is uploaded is what it sent: the bag has no file, and no
\* version of a file, that is not from this upload; and it lacks a file only if
\* os.Create failed for it or the upload had more than one root, whatever the order
\* of the parts, doubled names, and the uploads that run beside it.
UploadedBagIsWhole ==
    \A d \in Dirs :
        LET files == upload[d].bag.files
        IN  upload[d].pc = "done" =>
              /\ DOMAIN files \subseteq DOMAIN sent[d]
              /\ \A n \in DOMAIN files \ missed[d] : files[n] = sent[d][n]
              /\ InOnePlace(DOMAIN sent[d]) => DOMAIN sent[d] \ DOMAIN files \subseteq missed[d]

Served(b) ==
    \A n \in DOMAIN b.files :
        /\ n \in DOMAIN disk[daemon[b]]
        /\ disk[daemon[b]][n] = b.files[n]

\* A bag that is recorded has its files where the daemon serves them from.  The
\* deferred RemoveAll takes them from under it only when an upload of the same bag
\* has failed after Create: the failure of any other upload, at any part of it,
\* leaves the bag whole.
RecordedBagIsServed ==
    \A b \in recorded :
        Served(b) \/ \E d \in Dirs : upload[d].pc = "failed" /\ upload[d].bag = b
================================================================================
