------------------------------ MODULE ProductSync ------------------------------
(***************************************************************************)
(* KiotViet products and their Shopify products.                           *)
(*                                                                         *)
(* A queue job reads a KiotViet product and its variant family, finds the  *)
(* Shopify product by the rows of product_mappings or by SKU, writes it in *)
(* several calls, and records first its identity and at the end a hash of  *)
(* what it wrote; an equal hash lets later jobs skip the writes.  Deleted  *)
(* products archive theirs, or leave it to the rest of the family.         *)
(*                                                                         *)
(* The content of a product (names, prices, images, draft category) is one *)
(* version.  A Shopify variant is known by its product and, in a product   *)
(* with options, its SKU.  The reads before the writes are one step, and   *)
(* so are the two statements that save a hash.                             *)
(*                                                                         *)
(* Definitions named Bug... are wrong variants of the one that follows.    *)
(***************************************************************************)
EXTENDS Naturals, Sequences

CONSTANTS
  Products, Workers,
  Blank,       \* no SKU
  Nothing,     \* SQL NULL; no content
  Scenarios    \* workers; sku: of each product; family: the products are variants of one another, or
               \*   else stand alone; live: the products sold at first;
               \*   offered: those that may be sold later; byCode: deletions name
               \*   the code, not the id; revert: content may return; mapper:
               \*   mappings are also made by orders and by the backfill;
               \*   unmapped: Shopify has the products already; change, fault,
               \*   crash, resend: bounds

ASSUME ProductsAssumption ==
  /\ \A e \in Scenarios :
       /\ e.workers \subseteq Workers /\ e.live \cup e.offered \subseteq Products
       /\ Products = DOMAIN e.sku /\ \A p \in Products : e.sku[p] # Blank
       /\ {e.family, e.byCode, e.revert, e.mapper, e.unmapped} \subseteq BOOLEAN
       /\ {e.change, e.fault, e.crash, e.resend} \subseteq Nat

VARIABLES
  scene,    \* the scenario of the behaviour, chosen once
  catalog,  \* KiotViet: each product is sold, inactive, new or gone, and its version
  listings, \* Shopify products
  rows,     \* product_mappings
  todo,     \* waiting jobs: <<"sync" or "delete", product>>
  failed,   \* products whose job ended in a MappingError
  worker, mapper, \* local state
  used      \* how often each bounded event happened

cstate == <<catalog, listings, rows, todo, failed, worker, mapper, used>>
cvars == <<scene, cstate>>

Sku == scene.sku

Free == [pc |-> "idle", job |-> Nothing, op |-> Nothing, view |-> Nothing, all |-> {},
         item |-> 0, left |-> {}, drop |-> {}, refs |-> {}]
NoOne == [pc |-> "idle", product |-> Nothing, item |-> 0]

Item(skus, options, content) ==
  [state |-> "live", options |-> options, skus |-> skus, product |-> content, variant |-> content,
   marker |-> Nothing, lost |-> FALSE, half |-> FALSE]

CatalogInit ==
  /\ scene \in Scenarios
  /\ catalog = [p \in Products |-> [is |-> IF p \in scene.live THEN "sold" ELSE "new", ver |-> 0]]
  /\ listings = IF scene.unmapped THEN <<Item({Sku[p] : p \in scene.live}, scene.family, Nothing)>> ELSE <<>>
  /\ rows = <<>> /\ failed = {}
  /\ todo = {<<"sync", p>> : p \in scene.live}
  /\ worker = [w \in Workers |-> Free] /\ mapper = NoOne
  /\ used = [b \in {"change", "fault", "crash", "resend"} |-> 0]

Several(S) == \E x, y \in S : x # y

Use(b) == used[b] < scene[b] /\ used' = [used EXCEPT ![b] = @ + 1]
-----------------------------------------------------------------------------
(* KiotViet, each change with its event                                    *)
Becomes(p, s, ver, kind) ==
  /\ Use("change")
  /\ catalog' = [catalog EXCEPT ![p] = [is |-> s, ver |-> ver]]
  /\ todo' = todo \cup {<<kind, p>>}
  /\ UNCHANGED <<listings, rows, failed, worker, mapper>>

Edit(p) ==
  /\ catalog[p].is = "sold"
  /\ \E v \in 0 .. catalog[p].ver + 1 :
       /\ v # catalog[p].ver /\ (v < catalog[p].ver => scene.revert)
       /\ Becomes(p, "sold", v, "sync")

Withdraw(p) == catalog[p].is = "sold" /\ Becomes(p, "inactive", catalog[p].ver, "sync")

Offer(p) ==
  /\ p \in scene.offered
  /\ catalog[p].is = "new" \/ (scene.revert /\ catalog[p].is = "inactive")
  /\ \A q \in Products \ {p} : Sku[q] = Sku[p] => catalog[q].is # "sold"
  /\ Becomes(p, "sold", catalog[p].ver, "sync")

Delete(p) == catalog[p].is \in {"sold", "inactive"} /\ Becomes(p, "gone", catalog[p].ver, "delete")
-----------------------------------------------------------------------------
(* product_mappings: at most one active row per SKU (migration 005)        *)
IsActive(r) == rows[r].status # "archived"
ActiveRows(s) == {r \in DOMAIN rows : rows[r].sku = s /\ IsActive(r)}
RowsOf(ps) == {r \in DOMAIN rows : rows[r].kv \in ps}

BugConflict(p) == FALSE  \* the SKU passes to whoever writes last
Conflict(p) == \E r \in ActiveRows(Sku[p]) : rows[r].kv # p

(* upsertExact under the SKU's advisory lock; a new hash is set by the     *)
(* statement that follows it.                                              *)
Upsert(p, i, hash) ==
  LET new == [sku |-> Sku[p], kv |-> p, item |-> i, option |-> listings[i].options,
              status |-> IF hash = Nothing THEN "mapped" ELSE "synced", hash |-> hash, stale |-> FALSE]
  IN rows' = IF ActiveRows(Sku[p]) = {} THEN Append(rows, new)
             ELSE [r \in DOMAIN rows |-> IF r \in ActiveRows(Sku[p]) THEN new ELSE rows[r]]

Archived(rs) == [r \in DOMAIN rows |-> IF r \in rs THEN [rows[r] EXCEPT !.status = "archived"] ELSE rows[r]]
-----------------------------------------------------------------------------
(* Jobs                                                                    *)
Now(w, new) == worker' = [worker EXCEPT ![w] = new]
GoTo(w, pc) == Now(w, [worker[w] EXCEPT !.pc = pc])
End(w) == Now(w, Free)
Outside == UNCHANGED <<catalog, mapper, used>>

Take(w, j) ==
  /\ worker[w].pc = "idle" /\ j \in todo
  /\ todo' = todo \ {j}
  /\ Now(w, IF j[1] = "sync" THEN [Free EXCEPT !.pc = "fetch", !.job = j]
            ELSE [Free EXCEPT !.pc = "reference", !.job = j, !.refs = {j[2]}])
  /\ UNCHANGED <<listings, rows, failed>> /\ Outside

Refuse(w) ==  \* a person's work
  /\ failed' = failed \cup {worker[w].job[2]}
  /\ End(w)
  /\ UNCHANGED <<listings, rows, todo>> /\ Outside

Sold(ps) == {p \in ps : catalog[p].is = "sold"}
View(ps) == [p \in ps |-> catalog[p].ver]

FetchFails(w) ==  \* 404: the product is gone
  /\ worker[w].pc = "fetch" /\ catalog[worker[w].job[2]].is = "gone"
  /\ End(w)
  /\ UNCHANGED <<listings, rows, todo, failed>> /\ Outside

Fetch(w) ==
  LET p == worker[w].job[2]
      family == IF scene.family THEN {q \in Products : catalog[q].is \in {"sold", "inactive"}} ELSE {p}
  IN /\ worker[w].pc = "fetch" /\ catalog[p].is # "gone"
     /\ Now(w, IF Sold(family) = {} THEN [worker[w] EXCEPT !.pc = "reference", !.refs = family]
               ELSE [worker[w] EXCEPT !.pc = "plan", !.all = family, !.view = View(Sold(family)),
                                      !.drop = family \ Sold(family)])
     /\ UNCHANGED <<listings, rows, todo, failed>> /\ Outside

Written(w) == DOMAIN worker[w].view
Skus(w) == {Sku[p] : p \in Written(w)}
-----------------------------------------------------------------------------
(* What a job finds: readProductMappings and the searches by SKU           *)
Alive(i) == listings[i].state # "deleted"
Found(s) == {i \in DOMAIN listings : Alive(i) /\ s \in listings[i].skus}

(* An excluded member keeps only its own row.                              *)
RowsFor(w, p) == {r \in ActiveRows(Sku[p]) : p \in Written(w) \/ rows[r].kv = p}
FamilyRows(w) == UNION {RowsFor(w, p) : p \in worker[w].all}
Reclaiming(w) ==
  \E p \in Written(w) : /\ \E r \in DOMAIN rows : rows[r].sku = Sku[p] /\ ~IsActive(r)
                        /\ ~\E r \in RowsFor(w, p) : rows[r].kv = p
Pending(r) == rows[r].status = "mapped" /\ rows[r].hash = Nothing

(* The mapped variant of a product that stands alone: still there, with    *)
(* its SKU, or without one when its creation is resumed.                   *)
BugReached(r) ==  \* a creation is not resumed
  /\ Alive(rows[r].item) /\ listings[rows[r].item].options = rows[r].option
  /\ rows[r].sku \in listings[rows[r].item].skus

Reached(r) ==
  /\ Alive(rows[r].item) /\ listings[rows[r].item].options = rows[r].option
  /\ \/ rows[r].sku \in listings[rows[r].item].skus
     \/ Pending(r) /\ listings[rows[r].item].skus = {Blank}

Resuming(w) == ~scene.family /\ \E r \in FamilyRows(w) : Reached(r) /\ Pending(r)
Searched(w) == IF Resuming(w) THEN {} ELSE UNION {Found(Sku[p]) : p \in Written(w)}
Targets(w) ==
  Searched(w) \cup {rows[r].item : r \in {q \in FamilyRows(w) : IF scene.family THEN Alive(rows[q].item) ELSE Reached(q)}}

Unclear(w) ==
  \/ \E p \in worker[w].all : \E r \in RowsFor(w, p) : rows[r].kv # p
  \/ ~Resuming(w) /\ \E p \in Written(w) : Several(Found(Sku[p]))
  \/ Several(Targets(w))
  \/ Reclaiming(w) /\ \E r \in DOMAIN rows :
       rows[r].item \in Targets(w) /\ IsActive(r) /\ rows[r].kv \notin worker[w].all

BugUnchanged(w, p) ==  \* also of a product whose writes were not finished
  /\ Targets(w) # {}
  /\ \A q \in Written(w) : \E r \in FamilyRows(w) : rows[r].kv = q
  /\ \E r \in RowsFor(w, p) : rows[r].kv = p /\ rows[r].hash \in {Nothing, worker[w].view}

(* shouldSkipUnchangedProduct for the product p that triggers the job      *)
Unchanged(w, p) ==
  /\ Targets(w) # {}
  /\ \A q \in Written(w) : \E r \in FamilyRows(w) : rows[r].kv = q
  /\ \E r \in RowsFor(w, p) : rows[r].kv = p /\ rows[r].hash = worker[w].view
  /\ \A r \in IF scene.family THEN FamilyRows(w) ELSE RowsFor(w, p) : rows[r].status = "synced"

Trigger(w) == IF worker[w].job[2] \in Written(w) THEN {worker[w].job[2]} ELSE Written(w)

PlanRefused(w) == worker[w].pc = "plan" /\ Unclear(w) /\ Refuse(w)

PlanSkips(w) ==
  /\ worker[w].pc = "plan" /\ ~Unclear(w)
  /\ \E p \in Trigger(w) : Unchanged(w, p)
  /\ GoTo(w, "stock")
  /\ UNCHANGED <<listings, rows, todo, failed>> /\ Outside

(* The variant fields were written by an earlier attempt.                  *)
Marked(w, i) ==
  /\ ~Reclaiming(w) /\ \E r \in FamilyRows(w) : Pending(r)
  /\ listings[i].marker = worker[w].view /\ listings[i].skus = Skus(w)

Operation(w, i) ==  \* on Shopify product i, 0 for none
  IF Several(Written(w)) THEN IF i # 0 /\ Marked(w, i) THEN "resume" ELSE "set"
  ELSE IF i = 0 THEN "create" ELSE IF scene.family \/ listings[i].options THEN "collapse" ELSE "update"

FirstCall(op) == CASE op = "resume" -> "checkpoint" [] op = "update" -> "product" [] OTHER -> op

PlanWrites(w) ==
  LET i == IF Targets(w) = {} THEN 0 ELSE CHOOSE t \in Targets(w) : TRUE IN
  /\ worker[w].pc = "plan" /\ ~Unclear(w)
  /\ \E p \in Trigger(w) : ~Unchanged(w, p)
  /\ Now(w, [worker[w] EXCEPT !.op = Operation(w, i), !.item = i, !.left = Written(w),
                              !.pc = FirstCall(Operation(w, i))])
  /\ UNCHANGED <<listings, rows, todo, failed>> /\ Outside
-----------------------------------------------------------------------------
(* Writing the Shopify product                                             *)
ShopOnly == UNCHANGED <<rows, todo, failed>> /\ Outside
This(w) == worker[w].item
Listing(w) == listings[This(w)]
Alter(w, new) == listings' = [listings EXCEPT ![This(w)] = new]
Put(w, new, pc) ==
  /\ Alive(This(w))
  /\ Alter(w, [new EXCEPT !.half = FALSE])
  /\ GoTo(w, pc) /\ ShopOnly

CallRefused(w) ==  \* the product is not there any more, at every attempt
  /\ worker[w].pc \in {"set", "collapse", "product", "variant", "mark", "retire"}
  /\ This(w) # 0 /\ ~Alive(This(w))
  /\ Refuse(w)

NewProduct(w) ==  \* of productCreate: its variant has no SKU yet; or of productSet
  IF worker[w].pc = "create" THEN [Item({Blank}, FALSE, Nothing) EXCEPT !.product = worker[w].view]
  ELSE Item(Skus(w), TRUE, worker[w].view)

Create(w) ==  \* productCreate
  /\ worker[w].pc = "create"
  /\ listings' = Append(listings, NewProduct(w))
  /\ Now(w, [worker[w] EXCEPT !.pc = "checkpoint", !.item = Len(listings) + 1])
  /\ ShopOnly

SetNew(w) ==  \* productSet
  /\ worker[w].pc = "set" /\ This(w) = 0
  /\ listings' = Append(listings, NewProduct(w))
  /\ Now(w, [worker[w] EXCEPT !.pc = "checkpoint", !.item = Len(listings) + 1, !.op = "new"])
  /\ ShopOnly

(* A creation was executed and its answer is lost: the client, which is not *)
(* told that it must not be repeated, sends it again, up to three times.   *)
CreateAgain(w) ==
  /\ worker[w].pc = "create" \/ (worker[w].pc = "set" /\ This(w) = 0)
  /\ Use("resend")
  /\ listings' = Append(listings, [NewProduct(w) EXCEPT !.lost = TRUE])
  /\ UNCHANGED <<catalog, rows, todo, failed, worker, mapper>>

SetGroup(w) ==
  /\ worker[w].pc = "set" /\ This(w) # 0
  /\ Put(w, [Listing(w) EXCEPT !.state = "live", !.options = TRUE, !.skus = Skus(w),
                               !.product = worker[w].view, !.variant = worker[w].view], "checkpoint")

Collapse(w) ==  \* productSet without variants leaves a new default variant
  /\ worker[w].pc = "collapse"
  /\ Put(w, [Listing(w) EXCEPT !.state = "live", !.options = FALSE, !.skus = {Blank},
                               !.product = worker[w].view, !.variant = Nothing], "product")

WriteProduct(w) ==  \* productUpdate
  /\ worker[w].pc = "product"
  /\ Put(w, [Listing(w) EXCEPT !.state = "live", !.product = worker[w].view], "variant")

WriteVariant(w) ==  \* productVariantsBulkUpdate
  /\ worker[w].pc = "variant"
  /\ Put(w, [Listing(w) EXCEPT !.skus = Skus(w), !.variant = worker[w].view],
         IF worker[w].op = "create" THEN "media" ELSE "checkpoint")

AfterCheckpoint(op) == CASE op = "create" -> "product" [] op \in {"set", "new"} -> "mark" [] OTHER -> "media"

BugCheckpoint(w) ==  \* an identity that is known keeps its hash
  /\ worker[w].pc = "checkpoint" /\ worker[w].left # {}
  /\ \E p \in worker[w].left :
       /\ ~Conflict(p)
       /\ IF \E r \in ActiveRows(Sku[p]) : rows[r].hash # Nothing THEN UNCHANGED rows ELSE Upsert(p, This(w), Nothing)
       /\ Now(w, [worker[w] EXCEPT !.left = @ \ {p}])
  /\ UNCHANGED <<listings, todo, failed>> /\ Outside

Checkpoint(w) ==  \* saveMapping without a hash, one product after the other
  /\ worker[w].pc = "checkpoint" /\ worker[w].left # {}
  /\ \E p \in worker[w].left :
       /\ ~Conflict(p)
       /\ Upsert(p, This(w), Nothing)
       /\ Now(w, [worker[w] EXCEPT !.left = @ \ {p}])
  /\ UNCHANGED <<listings, todo, failed>> /\ Outside

Checkpointed(w) ==
  /\ worker[w].pc = "checkpoint" /\ worker[w].left = {}
  /\ Now(w, [worker[w] EXCEPT !.pc = AfterCheckpoint(worker[w].op), !.left = Written(w)])
  /\ UNCHANGED listings /\ ShopOnly

(* cleanupUncheckpointedProduct deletes a product that was just created,   *)
(* if Shopify lets it; one without SKU and mapping is lost.                *)
Cleaned(w) ==
  IF worker[w].pc = "checkpoint" /\ worker[w].left # {} /\ worker[w].op \in {"create", "new"}
  THEN \E end \in {"deleted", "live"} :
         Alter(w, [Listing(w) EXCEPT !.state = end, !.lost = end = "live" /\ worker[w].op = "create"])
  ELSE UNCHANGED listings

CheckpointRefused(w) ==
  /\ worker[w].pc = "checkpoint" /\ \E p \in worker[w].left : Conflict(p)
  /\ Cleaned(w)
  /\ failed' = failed \cup {worker[w].job[2]}
  /\ End(w)
  /\ UNCHANGED <<rows, todo>> /\ Outside

Mark(w) == worker[w].pc = "mark" /\ Put(w, [Listing(w) EXCEPT !.marker = worker[w].view], "media")

Media(w) ==
  /\ worker[w].pc = "media"
  /\ GoTo(w, "save")
  /\ UNCHANGED listings /\ ShopOnly

Save(w) ==  \* and then its stock
  /\ worker[w].pc = "save" /\ worker[w].left # {}
  /\ \E p \in worker[w].left :
       /\ ~Conflict(p)
       /\ Upsert(p, This(w), worker[w].view)
       /\ Now(w, [worker[w] EXCEPT !.left = @ \ {p}])
  /\ UNCHANGED <<listings, todo, failed>> /\ Outside

SaveRefused(w) ==
  /\ worker[w].pc = "save" /\ \E p \in worker[w].left : Conflict(p)
  /\ Refuse(w)

Stock(w) ==  \* of an unchanged product
  /\ worker[w].pc = "stock"
  /\ Now(w, [worker[w] EXCEPT !.pc = "save", !.left = {}])
  /\ UNCHANGED listings /\ ShopOnly

Drop(w) ==  \* archiveFamilyMappings
  /\ worker[w].pc = "save" /\ worker[w].left = {}
  /\ rows' = Archived(RowsOf(worker[w].drop))
  /\ IF worker[w].refs = {} THEN End(w) ELSE GoTo(w, "reference")
  /\ UNCHANGED <<listings, todo, failed>> /\ Outside
-----------------------------------------------------------------------------
(* syncDeletedKiotVietProducts                                             *)
ByCode(w) == scene.byCode /\ worker[w].job[1] = "delete"
RowsNamed(w, p) == IF ByCode(w) THEN {r \in DOMAIN rows : rows[r].sku = Sku[p]} ELSE RowsOf({p})
LiveRows(w, p) == {r \in RowsNamed(w, p) : IsActive(r)}
Owners(rs) == {rows[r].kv : r \in rs}
Mentioned(rs) == {rows[r].item : r \in rs}

BugStaying(w, p) == {}  \* the family is forgotten

Staying(w, p) ==  \* the rest of the family, read from KiotViet again
  Sold({rows[r].kv : r \in {q \in DOMAIN rows : /\ IsActive(q) /\ rows[q].item \in Mentioned(LiveRows(w, p))
                                                /\ rows[q].kv \notin Owners(LiveRows(w, p))}})

ReferenceDone(w) ==
  /\ worker[w].pc = "reference" /\ worker[w].refs = {}
  /\ End(w) /\ UNCHANGED listings /\ ShopOnly

ReferenceUnknown(w, p) ==
  /\ worker[w].pc = "reference" /\ p \in worker[w].refs /\ LiveRows(w, p) = {}
  /\ Now(w, [worker[w] EXCEPT !.refs = @ \ {p}])
  /\ UNCHANGED listings /\ ShopOnly

ReferenceUnclear(w, p) ==
  /\ worker[w].pc = "reference" /\ p \in worker[w].refs /\ LiveRows(w, p) # {}
  /\ Several(Mentioned(LiveRows(w, p))) \/ (ByCode(w) /\ Several(Owners(RowsNamed(w, p))))
  /\ Refuse(w)

Reference(w, p) ==
  /\ worker[w].pc = "reference" /\ p \in worker[w].refs /\ LiveRows(w, p) # {}
  /\ ~Several(Mentioned(LiveRows(w, p))) /\ (ByCode(w) => ~Several(Owners(RowsNamed(w, p))))
  /\ LET op == IF Staying(w, p) = {} THEN "retire" ELSE IF Several(Staying(w, p)) THEN "set" ELSE "collapse" IN
     Now(w, [worker[w] EXCEPT !.refs = @ \ {p}, !.pc = op, !.op = op, !.view = View(Staying(w, p)),
                              !.left = Staying(w, p), !.drop = Owners(LiveRows(w, p)),
                              !.item = CHOOSE i \in Mentioned(LiveRows(w, p)) : TRUE])
  /\ UNCHANGED listings /\ ShopOnly

Retire(w) == worker[w].pc = "retire" /\ Put(w, [Listing(w) EXCEPT !.state = "archived"], "forget")

Forget(w) ==
  /\ worker[w].pc = "forget"
  /\ rows' = Archived({r \in DOMAIN rows : rows[r].item = This(w)})
  /\ GoTo(w, "reference")
  /\ UNCHANGED <<listings, todo, failed>> /\ Outside

Work(w) ==
  \/ CallRefused(w)
  \/ FetchFails(w) \/ Fetch(w) \/ PlanRefused(w) \/ PlanSkips(w) \/ PlanWrites(w)
  \/ Create(w) \/ SetNew(w) \/ SetGroup(w) \/ Collapse(w) \/ WriteProduct(w) \/ WriteVariant(w)
  \/ Checkpoint(w) \/ Checkpointed(w) \/ CheckpointRefused(w) \/ Mark(w) \/ Media(w)
  \/ Save(w) \/ SaveRefused(w) \/ Stock(w) \/ Drop(w)
  \/ ReferenceDone(w) \/ Retire(w) \/ Forget(w)
  \/ \E p \in Products : ReferenceUnknown(w, p) \/ ReferenceUnclear(w, p) \/ Reference(w, p)
-----------------------------------------------------------------------------
(* A call or a statement fails, or the worker dies: the job runs again.    *)
(* What it leaves behind where it had written a product of Shopify, and    *)
(* not yet the rows or the marker that follow, is noted here and used by   *)
(* no step: rows that still hold the hash of what was there before, the    *)
(* marker of that, or no row.                                              *)
Wrote(w) ==
  /\ This(w) # 0 /\ worker[w].op \in {"set", "collapse", "update", "retire"}
  /\ \/ worker[w].pc \in {"variant", "checkpoint", "mark", "media", "save", "forget"}
     \/ worker[w].pc = "product" /\ worker[w].op = "collapse"
RowsAt(i) == {r \in DOMAIN rows : IsActive(r) /\ rows[r].item = i}
NotRenewed(w) ==
  {r \in RowsAt(This(w)) : /\ rows[r].hash \notin {Nothing, worker[w].view}
                           /\ \/ worker[w].pc = "forget" \/ rows[r].kv \in worker[w].drop
                              \/ worker[w].pc \in {"product", "variant", "checkpoint"} /\ rows[r].kv \in worker[w].left}

Again(w) ==
  /\ rows' = [r \in DOMAIN rows |-> [rows[r] EXCEPT !.stale = @ \/ (Wrote(w) /\ r \in NotRenewed(w))]]
  /\ todo' = todo \cup {worker[w].job} /\ End(w) /\ UNCHANGED <<catalog, failed, mapper>>

LeavesHalf(w) ==
  /\ Wrote(w)
  /\ \/ RowsAt(This(w)) = {}
     \/ /\ worker[w].op = "set" /\ worker[w].pc \in {"checkpoint", "mark"}
        /\ Listing(w).marker \notin {Nothing, worker[w].view}

Fail(w) ==
  /\ worker[w].pc # "idle" /\ Use("fault")
  /\ IF LeavesHalf(w) THEN Alter(w, [Listing(w) EXCEPT !.half = TRUE]) ELSE Cleaned(w)
  /\ Again(w)

LeavesLost(w) == worker[w].pc = "checkpoint" /\ worker[w].op = "create" /\ worker[w].left # {}

Die(w) ==
  /\ worker[w].pc # "idle" /\ Use("crash")
  /\ IF LeavesLost(w) \/ LeavesHalf(w)
     THEN Alter(w, [Listing(w) EXCEPT !.lost = @ \/ LeavesLost(w), !.half = @ \/ LeavesHalf(w)])
     ELSE UNCHANGED listings
  /\ Again(w)

(* ensureProductMapping, the backfill and ensureKiotVietProductMapping     *)
Listed(s) == {q \in Products : Sku[q] = s /\ catalog[q].is \in {"sold", "inactive"}}
WillMap(p) ==
  /\ scene.mapper /\ mapper.pc = "idle" /\ Found(Sku[p]) # {} /\ ~Several(Found(Sku[p]))
  /\ mapper' = [pc |-> "write", product |-> p, item |-> CHOOSE i \in Found(Sku[p]) : TRUE]
  /\ UNCHANGED <<catalog, listings, rows, todo, failed, worker, used>>

MapperReads(p) == ActiveRows(Sku[p]) = {} /\ Listed(Sku[p]) = {p} /\ WillMap(p)
EnsureReads(p) == p \in Listed(Sku[p]) /\ ~Conflict(p) /\ WillMap(p)

MapperWrites ==
  /\ mapper.pc = "write"
  /\ IF Conflict(mapper.product) THEN UNCHANGED rows ELSE Upsert(mapper.product, mapper.item, Nothing)
  /\ mapper' = NoOne
  /\ UNCHANGED <<catalog, listings, todo, failed, worker, used>>

CatalogStep ==
  \/ \E p \in Products : Edit(p) \/ Withdraw(p) \/ Offer(p) \/ Delete(p) \/ MapperReads(p) \/ EnsureReads(p)
  \/ MapperWrites
  \/ \E w \in scene.workers : Work(w) \/ CreateAgain(w) \/ Fail(w) \/ Die(w) \/ \E j \in todo : Take(w, j)

CatalogNext == CatalogStep /\ UNCHANGED scene

CatalogSpec == CatalogInit /\ [][CatalogNext]_cvars
-----------------------------------------------------------------------------
(* An active mapping never passes from one KiotViet product to another,    *)
(* whatever jobs and mappers overlap: only archiving frees a SKU           *)
(* (mappings.ts:54-62, 005_active_sku_ownership.sql).                      *)
OwnerKept ==
  [][\A r \in DOMAIN rows : IsActive(r) => rows'[r].kv = rows[r].kv /\ rows'[r].sku = rows[r].sku]_cvars

OneWriter == ~Several(scene.workers) /\ ~scene.mapper

(* No Shopify product is forgotten: a mapping, its SKU or a running job    *)
(* leads to each one, as long as one worker writes products and makes the  *)
(* mappings, except a creation whose answer was lost and that was sent     *)
(* again (graphql.ts:20-26), one whose worker died, or that Shopify        *)
(* refused to delete, before its mapping was made (products.ts:115-125),   *)
(* and a product without a mapping whose collapse was interrupted          *)
(* (products.ts:350-379).                                                  *)
Held(i) == \/ \E w \in Workers : This(w) = i
           \/ \E r \in DOMAIN rows : IsActive(r) /\ rows[r].item = i
Nameless(i) == listings[i].state = "live" /\ listings[i].skus = {Blank}
NoOrphan ==
  OneWriter => \A i \in DOMAIN listings : Nameless(i) /\ ~listings[i].lost /\ ~listings[i].half => Held(i)

(* When no job waits or runs, the products that rows lead to show what     *)
(* KiotViet sells and nothing else, whatever failed, died or changed on    *)
(* the way, as long as one worker writes products, mappings are made by it *)
(* alone, no job waits for a person, and a deletion by code names one      *)
(* product (kiotviet-product-sync.ts:207-292, 309-437, 439-523).  Excepted *)
(* is a product that a job wrote and was interrupted before it renewed its *)
(* rows or its marker, until they or the product are written again: when   *)
(* KiotViet returns to what it was, the old hash lets the retry skip the   *)
(* product (kiotviet-product-sync.ts:119) and the old marker its variants  *)
(* (products.ts:283-290), and one without a row is not looked for when it  *)
(* is withdrawn.                                                           *)
Quiet == todo = {} /\ failed = {} /\ mapper.pc = "idle" /\ \A w \in Workers : worker[w].pc = "idle"
HalfWritten(i) == listings[i].half \/ \E r \in RowsAt(i) : rows[r].stale
Shown(p, i) ==
  /\ listings[i].state = "live" /\ Sku[p] \in listings[i].skus
  /\ p \in DOMAIN listings[i].product /\ listings[i].product[p] = catalog[p].ver
  /\ p \in DOMAIN listings[i].variant /\ listings[i].variant[p] = catalog[p].ver
QuietAgrees ==
  OneWriter /\ (scene.byCode => scene.family) /\ Quiet =>
    /\ \A p \in Products : catalog[p].is = "sold" =>
         \E r \in ActiveRows(Sku[p]) : rows[r].kv = p /\ (Shown(p, rows[r].item) \/ HalfWritten(rows[r].item))
    /\ \A i \in Mentioned(DOMAIN rows) : listings[i].state = "live" /\ ~HalfWritten(i) =>
         \A s \in listings[i].skus : \E p \in Products : Sku[p] = s /\ catalog[p].is = "sold"
=============================================================================
