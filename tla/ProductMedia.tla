------------------------------ MODULE ProductMedia ------------------------------
(***************************************************************************)
(* The images of one Shopify product.                                      *)
(*                                                                         *)
(* Shopify processes an image after accepting it and gives it a URL of its *)
(* own, so a metafield of the product remembers which image came from      *)
(* which KiotViet URL.  A run that finds other images than it wants        *)
(* deletes all, appends its own one by one, saves their ids before it      *)
(* waits for the processing, and completes the metafield at the end.       *)
(*                                                                         *)
(* Several runs of one product may overlap, and staff edit images.  A page *)
(* of images is one read; ids that nobody remembers are used again.        *)
(* Definitions named Bug... are wrong variants of the one that follows.    *)
(***************************************************************************)
EXTENDS Naturals, Sequences, FiniteSets

CONSTANTS
  Uploads,    \* runs of syncShopifyProductMedia
  Lists,      \* the image lists the KiotViet product may have
  MediaBounds \* sets of: [runs, changes, faults, edits], chosen once

ASSUME MediaAssumption ==
  /\ IsFiniteSet(Uploads)
  /\ \A b \in MediaBounds : b.runs \subseteq Uploads /\ {b.changes, b.faults, b.edits} \subseteq Nat

VARIABLES
  bounds,
  wanted,  \* the KiotViet product's images
  media,   \* the Shopify product's images
  sources, \* the metafield: [id, source, url], url 0 before processing ended
  due,     \* a job of the product waits
  upload,  \* local state of each run
  spent    \* how often each bounded event happened

mvars == <<bounds, wanted, media, sources, due, upload, spent>>

NoRun == [at |-> "idle", desired |-> <<>>, old |-> {}, mine |-> <<>>]

MediaInit ==
  /\ bounds \in MediaBounds /\ wanted \in Lists
  /\ media = <<>> /\ sources = <<>> /\ due = TRUE
  /\ upload = [r \in Uploads |-> NoRun]
  /\ spent = [e \in {"changes", "faults", "edits"} |-> 0]

Spend(e) == spent[e] < bounds[e] /\ spent' = [spent EXCEPT ![e] = @ + 1]

Ids(s) == {s[i].id : i \in DOMAIN s}
Remembered(r) == upload[r].old \cup Ids(upload[r].mine)
UsedIds == Ids(media) \cup Ids(sources) \cup UNION {Remembered(r) : r \in Uploads}
NewId == CHOOSE n \in 1 .. Cardinality(UsedIds) + 1 : n \notin UsedIds
-----------------------------------------------------------------------------
BugMatches(desired, known) ==  \* images are known by their place alone
  /\ Len(media) = Len(desired)
  /\ \A i \in DOMAIN media : /\ media[i].status # "failed"
                             /\ i \in DOMAIN known /\ known[i].source = desired[i]

(* mediaMatches                                                            *)
Matches(desired, known) ==
  /\ Len(media) = Len(desired)
  /\ \A i \in DOMAIN media :
       /\ media[i].status # "failed"
       /\ i \in DOMAIN known /\ known[i].id = media[i].id /\ known[i].source = desired[i]
       /\ known[i].url \in {0, media[i].url}

(* The images that are left keep their order.                              *)
Remove(ids) ==
  LET left == {i \in DOMAIN media : media[i].id \notin ids}
  IN \E from \in [1 .. Cardinality(left) -> left] :
       /\ \A i, j \in DOMAIN from : i < j => from[i] < from[j]
       /\ media' = [k \in DOMAIN from |-> media[from[k]]]

Ready == \A i \in DOMAIN media : media[i].status = "ready"
Complete(desired) == [i \in DOMAIN media |-> [id |-> media[i].id, source |-> desired[i], url |-> media[i].url]]
-----------------------------------------------------------------------------
Advances(r, new) == upload' = [upload EXCEPT ![r] = new] /\ UNCHANGED <<bounds, wanted, spent>>
ReadsOnly(r, new) == Advances(r, new) /\ UNCHANGED <<media, sources, due>>
Fails(r) == upload' = [upload EXCEPT ![r] = NoRun] /\ due' = TRUE /\ UNCHANGED <<bounds, wanted, sources>>

Start(r) ==
  /\ due /\ upload[r].at = "idle"
  /\ due' = FALSE
  /\ Advances(r, [NoRun EXCEPT !.at = "read", !.desired = wanted])
  /\ UNCHANGED <<media, sources>>

(* The first read: nothing to do, a metafield to complete, uploads to wait *)
(* for, or everything anew.                                                *)
ReadSame(r) ==
  /\ upload[r].at = "read" /\ Matches(upload[r].desired, sources) /\ Ready
  /\ LET complete == Len(sources) = Len(media) /\ \E i \in DOMAIN sources : sources[i].url = 0
     IN ReadsOnly(r, [upload[r] EXCEPT !.at = IF complete THEN "fill" ELSE "done", !.mine = Complete(upload[r].desired)])

ReadPending(r) ==
  /\ upload[r].at = "read" /\ Matches(upload[r].desired, sources) /\ ~Ready
  /\ ReadsOnly(r, [upload[r] EXCEPT !.at = "verify", !.mine = sources])

ReadOther(r) ==
  /\ upload[r].at = "read" /\ ~Matches(upload[r].desired, sources)
  /\ ReadsOnly(r, [upload[r] EXCEPT !.at = "delete", !.old = Ids(media)])

DeleteAll(r) ==
  /\ upload[r].at = "delete" /\ upload[r].old \subseteq Ids(media)
  /\ Remove(upload[r].old)
  /\ Advances(r, [upload[r] EXCEPT !.at = "append", !.old = {}])
  /\ UNCHANGED <<sources, due>>

DeleteFails(r) ==  \* Shopify deletes those that are there
  /\ upload[r].at = "delete" /\ ~(upload[r].old \subseteq Ids(media))
  /\ Remove(upload[r].old)
  /\ Fails(r) /\ UNCHANGED spent

BugInOrder(r) == Len(media) >= Len(upload[r].mine)  \* the other images are not compared

(* The answer holds exactly the images of this run, in its order.          *)
InOrder(r) == Len(media) = Len(upload[r].mine) /\ \A i \in DOMAIN media : media[i].id = upload[r].mine[i].id

AppendOne(r) ==
  LET n == Len(upload[r].mine) + 1
      new == [id |-> NewId, source |-> upload[r].desired[n], status |-> "processing", url |-> 0]
  IN /\ upload[r].at = "append" /\ n <= Len(upload[r].desired)
     /\ media' = Append(media, new)
     /\ IF InOrder(r)
        THEN /\ Advances(r, [upload[r] EXCEPT !.mine = Append(@, [id |-> media'[n].id, source |-> new.source, url |-> 0])])
             /\ UNCHANGED <<sources, due>>
        ELSE Fails(r) /\ UNCHANGED spent

SaveIds(r) ==
  /\ upload[r].at = "append" /\ Len(upload[r].mine) = Len(upload[r].desired)
  /\ sources' = upload[r].mine
  /\ Advances(r, [upload[r] EXCEPT !.at = "verify"])
  /\ UNCHANGED <<media, due>>

VerifyReady(r) ==
  /\ upload[r].at = "verify" /\ Matches(upload[r].desired, upload[r].mine) /\ Ready
  /\ ReadsOnly(r, [upload[r] EXCEPT !.at = IF Complete(upload[r].desired) = sources THEN "done" ELSE "fill",
                                 !.mine = Complete(upload[r].desired)])

VerifyFails(r) ==  \* other images, or still processing at the last attempt
  /\ upload[r].at = "verify" /\ ~(Matches(upload[r].desired, upload[r].mine) /\ Ready)
  /\ Fails(r) /\ UNCHANGED <<media, spent>>

Fill(r) ==
  /\ upload[r].at = "fill"
  /\ sources' = upload[r].mine
  /\ Advances(r, [upload[r] EXCEPT !.at = "done"])
  /\ UNCHANGED <<media, due>>

Return(r) == upload[r].at = "done" /\ ReadsOnly(r, NoRun)

Interrupt(r) == upload[r].at \notin {"idle", "done"} /\ Spend("faults") /\ Fails(r) /\ UNCHANGED media
-----------------------------------------------------------------------------
(* KiotViet, Shopify's processing and staff                                *)
ChangeImages(list) ==
  /\ Spend("changes") /\ list # wanted
  /\ wanted' = list /\ due' = TRUE
  /\ UNCHANGED <<bounds, media, sources, upload>>

Process(i) ==
  /\ media[i].status = "processing"
  /\ \/ media' = [media EXCEPT ![i] = [@ EXCEPT !.status = "ready", !.url = 1]] /\ UNCHANGED spent
     \/ Spend("faults") /\ media' = [media EXCEPT ![i] = [@ EXCEPT !.status = "failed"]]
  /\ UNCHANGED <<bounds, wanted, sources, due, upload>>

(* An image is removed, or one whose URL is remembered already, by every   *)
(* run too, replaced: README, "Known divergences".                         *)
StaffEdit(i) ==
  /\ Spend("edits")
  /\ \/ Remove({media[i].id})
     \/ /\ media[i].status = "ready"
        /\ \E k \in DOMAIN sources : sources[k].id = media[i].id /\ sources[k].url = media[i].url
        /\ \A r \in Uploads : \A k \in DOMAIN upload[r].mine :
             upload[r].mine[k].id = media[i].id => upload[r].mine[k].url # 0
        /\ media' = [media EXCEPT ![i] = [@ EXCEPT !.url = 2, !.source = "staff"]]
  /\ UNCHANGED <<bounds, wanted, sources, due, upload>>

RunStep(r) ==
  \/ Start(r) \/ ReadSame(r) \/ ReadPending(r) \/ ReadOther(r) \/ DeleteAll(r) \/ DeleteFails(r)
  \/ AppendOne(r) \/ SaveIds(r) \/ VerifyReady(r) \/ VerifyFails(r) \/ Fill(r) \/ Return(r)

MediaNext ==
  \/ \E r \in bounds.runs : RunStep(r) \/ Interrupt(r)
  \/ \E list \in Lists : ChangeImages(list)
  \/ \E i \in DOMAIN media : Process(i) \/ StaffEdit(i)

MediaSpec == MediaInit /\ [][MediaNext]_mvars
-----------------------------------------------------------------------------
Exact(desired) ==
  Len(media) = Len(desired) /\ \A i \in DOMAIN media : media[i].source = desired[i] /\ media[i].status = "ready"

(* A run succeeds only on a read that shows the images it wants, in their  *)
(* order and processed, whatever other runs and staff do meanwhile         *)
(* (product-media.ts:85-118); except that an image replaced in place before*)
(* its URL was remembered passes for the upload, see StaffEdit.            *)
SuccessIsShown ==
  [][\A r \in Uploads : upload[r].at \in {"read", "verify"} /\ upload'[r].at \in {"fill", "done"} => Exact(upload[r].desired)]_mvars

(* The metafield never gives an image a source it was not uploaded from,   *)
(* staff's replacements aside (product-media.ts:136-158).                  *)
SourcesAreTrue ==
  \A i \in DOMAIN sources, j \in DOMAIN media :
    sources[i].id = media[j].id /\ media[j].source # "staff" => sources[i].source = media[j].source
=============================================================================
