------------------------------ MODULE Pictures ------------------------------
(***************************************************************************)
(* The pictures that rows refer to: of vendors, products and categories,   *)
(* and those of the platform settings.  The file store and the row are     *)
(* written one after the other, by requests that may fail in between.      *)
(***************************************************************************)
EXTENDS Integers, FiniteSets

CONSTANTS
    Slots,              \* columns with the name of a picture
    Early,              \* those whose old picture is deleted first
    Files,              \* files that can ever be stored, in this order
    Uploads             \* requests in flight

ASSUME PicturesAssumption ==
    /\ Early \subseteq Slots
    /\ IsFiniteSet(Files) /\ Files = 1..Cardinality(Files)
    /\ IsFiniteSet(Uploads)

VARIABLES
    shown,      \* the picture of each slot, 0 if none
    files,      \* files in the store
    stored,     \* files stored so far
    upload,     \* requests in flight
    broken      \* slots an upload ended for, after it had deleted the old picture

picturesVars == <<shown, files, stored, upload, broken>>

UploadRecords == {[op |-> "idle"]}
    \cup [op : {"discardFirst", "store"}, slot : Slots, old : Files \cup {0}]
    \cup [op : {"write"}, slot : Slots, old : Files \cup {0}, new : Files]
    \cup [op : {"discard"}, slot : Slots, old : Files]

PicturesTypeOK ==
    /\ shown \in [Slots -> Files \cup {0}]
    /\ files \subseteq 1..stored
    /\ stored \in Files \cup {0}
    /\ upload \in [Uploads -> UploadRecords]
    /\ broken \subseteq Early

PicturesInit ==
    /\ shown = [s \in Slots |-> 0]
    /\ files = {}
    /\ stored = 0
    /\ upload = [u \in Uploads |-> [op |-> "idle"]]
    /\ broken = {}

Step(u, r) == upload' = [upload EXCEPT ![u] = r]
Stop(u) == Step(u, [op |-> "idle"])

-----------------------------------------------------------------------------

\* Mistake: every old picture is deleted first.
UploadDeletingFirst(u, s) ==
    /\ upload[u].op = "idle"
    /\ Step(u, [op |-> IF shown[s] # 0 THEN "discardFirst" ELSE "store",
                slot |-> s, old |-> shown[s]])
    /\ UNCHANGED <<shown, files, stored, broken>>

\* uploadLogo, uploadCover; and uploadImage, uploadIcon, uploadHomeCover, ... with
\* the slots of Early.  (Settings that come from the cache may name a picture of
\* before, whose file is gone already.)
Upload(u, s) ==
    /\ upload[u].op = "idle"
    /\ Step(u, [op |-> IF s \in Early /\ shown[s] # 0 THEN "discardFirst" ELSE "store",
                slot |-> s, old |-> shown[s]])
    /\ UNCHANGED <<shown, files, stored, broken>>

DiscardFirst(u) ==
    /\ upload[u].op = "discardFirst"
    /\ files' = files \ {upload[u].old}
    /\ Step(u, [upload[u] EXCEPT !.op = "store"])
    /\ UNCHANGED <<shown, stored, broken>>

StoreFile(u) ==
    /\ upload[u].op = "store"
    /\ stored + 1 \in Files
    /\ stored' = stored + 1
    /\ files' = files \cup {stored'}
    /\ Step(u, [op |-> "write", slot |-> upload[u].slot, old |-> upload[u].old, new |-> stored'])
    /\ UNCHANGED <<shown, broken>>

\* Another upload may have written the slot since the old picture was read.
WriteSlot(u) ==
    /\ upload[u].op = "write"
    /\ LET s == upload[u].slot IN
          /\ shown' = [shown EXCEPT ![s] = upload[u].new]
          /\ IF s \notin Early /\ upload[u].old # 0
             THEN Step(u, [op |-> "discard", slot |-> s, old |-> upload[u].old])
             ELSE Stop(u)
          /\ broken' = broken \ {s}
    /\ UNCHANGED <<files, stored>>

\* A failure is logged.
Discard(u) ==
    /\ upload[u].op = "discard"
    /\ files' \in {files, files \ {upload[u].old}}
    /\ Stop(u)
    /\ UNCHANGED <<shown, stored, broken>>

\* The store or the database fails, or the process dies.
UploadFails(u) ==
    /\ upload[u].op # "idle"
    /\ broken' = IF upload[u].op \in {"store", "write"} /\ upload[u].slot \in Early
                 THEN broken \cup {upload[u].slot} ELSE broken
    /\ Stop(u)
    /\ UNCHANGED <<shown, files, stored>>

PicturesNext ==
    \E u \in Uploads :
        \/ \E s \in Slots : Upload(u, s)
        \/ DiscardFirst(u) \/ StoreFile(u) \/ WriteSlot(u) \/ Discard(u) \/ UploadFails(u)

PicturesSpec == PicturesInit /\ [][PicturesNext]_picturesVars

-----------------------------------------------------------------------------
(* Properties *)

\* "Delete old logo only AFTER successful DB update to prevent orphans on crash":
\* the picture a row refers to is in the store, however uploads for it overtake
\* one another or fail (uploadLogo, uploadCover).  Where the old one is deleted
\* first this holds but for uploads under way or broken off (uploadImage, ...).
PictureThere ==
    \A s \in Slots \ broken :
        \/ shown[s] \in files \cup {0}
        \/ s \in Early /\ \E u \in Uploads : upload[u].op \in {"store", "write"} /\ upload[u].slot = s
=============================================================================
