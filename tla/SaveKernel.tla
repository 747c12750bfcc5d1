----------------------------- MODULE SaveKernel -----------------------------
(***************************************************************************)
(* The decisions of the save sync and what RomM answers it, as pure        *)
(* operators.  Both are outside the repository: the decisions are the      *)
(* compiled gavel core, reached through adapters/gavel_native.py and       *)
(* pinned by docs/architecture/save-file-sync-architecture.md ("Decision   *)
(* Matrix"); RomM is modelled from what the callers and the test fakes     *)
(* hold it to (tests/fakes/_romm_save_semantics.py).                       *)
(*                                                                         *)
(* A save's bytes are a content, a natural number; two hashes are equal    *)
(* exactly when the contents are.  0 is no file, or no baseline.           *)
(***************************************************************************)
EXTENDS Naturals, FiniteSets, Sequences

None == 0

(* The listed saves that share the file's canonical target.              *)
Group(listed, file) == {s \in listed : s.file = file}

Newest(group) == CHOOSE s \in group : \A t \in group : t.upd <= s.upd

Identical(local, baseline, head) ==
    \/ local = head.content
    \/ local = baseline.local /\ baseline.server = head.content

Decision(local, group, baseline, truncated) ==
    IF group = {} THEN (IF local = None THEN "skip" ELSE "upload")
    ELSE LET head == Newest(group)
             changed == baseline.local # None /\ local # baseline.local
             fresh == baseline.local = None
         IN CASE local = None -> "download"
              [] local # None /\ head.current /\ fresh ->
                    IF local = head.content THEN "record" ELSE "conflict"
              [] local # None /\ head.current /\ ~fresh ->
                    IF ~changed THEN "skip"
                    ELSE IF local \in truncated THEN "conflict" ELSE "upload"
              [] local # None /\ ~head.current ->
                    IF Identical(local, baseline, head) THEN "adopt"
                    ELSE IF fresh \/ changed THEN "conflict" ELSE "download"

(* After a refused upload: only a provably unchanged file is replaced.     *)
UploadConflict(local, baseline, fresh) ==
    IF (baseline.local # None /\ local = baseline.local) \/ local = fresh.content
    THEN "download" ELSE "conflict"

(* The response of a POST is an old save that does not lead the group the  *)
(* upload was planned against.                                             *)
DedupReturnedNonHead(response, planned) ==
    /\ \E s \in planned : s.id = response.id
    /\ response.id # Newest(planned).id

-----------------------------------------------------------------------------
(* RomM.  saves is the sequence of saves of the slot, a save's id its      *)
(* index; rows the calling device's sync rows, 0 where it has none.        *)

IsCurrent(saves, rows, id) == rows[id] >= saves[id].upd

Listing(saves, rows) ==
    {[id |-> i, file |-> saves[i].file, content |-> saves[i].content,
      upd |-> saves[i].upd, current |-> IsCurrent(saves, rows, i)] : i \in 1..Len(saves)}

FileHead(saves, file) ==
    LET ids == {i \in 1..Len(saves) : saves[i].file = file}
    IN IF ids = {} THEN 0 ELSE CHOOSE i \in ids : \A j \in ids : saves[j].upd <= saves[i].upd

SlotHead(saves) ==
    IF saves = <<>> THEN 0
    ELSE CHOOSE i \in 1..Len(saves) : \A j \in 1..Len(saves) : saves[j].upd <= saves[i].upd

(* add_save's write-time gate: refused unless the device is current on the *)
(* newest save of the slot, whichever file that is.                        *)
PostRefused(saves, rows, overwrite) ==
    ~overwrite /\ saves # <<>> /\ ~IsCurrent(saves, rows, SlotHead(saves))

(* add_save's content dedup: the saves of the slot with the same bytes.    *)
SameContent(saves, content, overwrite) ==
    IF overwrite THEN {} ELSE {i \in 1..Len(saves) : saves[i].content = content}

(* confirm_download: a bare row, one recorded without the device's hash,   *)
(* keeps its sync time; any other is stamped.                              *)
ConfirmedRow(saves, rows, bare, id) ==
    IF bare /\ rows[id] # 0 THEN rows[id] ELSE saves[id].upd
=============================================================================
