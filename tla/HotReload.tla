------------------------------ MODULE HotReload ------------------------------
(***************************************************************************)
(* Hot reload of the gateway's configuration under traffic.  Operators     *)
(* edit virtual keys on the key pages (crates/drgtw-ui/src/pages/keys.rs)  *)
(* or save a section on the configuration page (pages/config.rs); a key    *)
(* edit goes through Reloader::apply (crates/drgtw-proxy/src/reload.rs),   *)
(* which writes the file, loads it back, copies the counters of the live   *)
(* bundle into a new one and swaps it in.  Meanwhile requests authenticate *)
(* against the bundle they loaded, are limited by its counters and charge  *)
(* the bundle that is live when they end (crates/drgtw-proxy/handlers.rs). *)
(*                                                                         *)
(* A bundle (`Live') is kept for ever in `bundles', the last one is live:  *)
(* an index into `bundles' is what an Arc<Live> held by a request is.  A   *)
(* virtual key is known by its position, `key_id' = "vk-{index}", from     *)
(* authentication on.                                                      *)
(*                                                                         *)
(* Each lock-protected counter operation is one step here, clock reading   *)
(* included; TokenBucket and KeyBudget take them apart.                    *)
(*                                                                         *)
(* The variable seen observes the run and is read by no action.            *)
(***************************************************************************)
EXTENDS Counters, SequencesExt

CONSTANTS Secrets,    \* the `key' values of virtual keys
          Entries,    \* the [[virtual_keys]] blocks operators submit
          FirstKeys,  \* the virtual keys in the file at first boot
          Ops,        \* the forms operators use: create, update, delete, save
          Admins,     \* operators (browser tabs) at work at the same time
          Requests,   \* slots: client requests in flight
          Costs,      \* what a response may cost
          MaxKeys,    \* bound: virtual keys in a submitted document
          MaxBundles, \* bound: bundles stored since boot
          MaxTime     \* bound: the last clock reading

Entry == [key : Secrets, rate : Option(RateLimit), budget : Option(Budget)]

\* validate_inner: no two virtual keys share a secret.
Distinct(ks) == \A i, j \in DOMAIN ks : ks[i].key = ks[j].key => i = j
Keys == {ks \in Seq(Entry) : Distinct(ks)}

ASSUME HotReloadAssumption ==
    /\ Entries \subseteq Entry
    /\ FirstKeys \in Keys
    /\ Ops \subseteq {"create", "update", "delete", "save"}
    /\ Costs \subseteq Nat
    /\ {MaxKeys, MaxBundles, MaxTime} \subseteq Nat

-----------------------------------------------------------------------------
(* A bundle *)

Bundle == [keys : Keys, buckets : Seq(Option(Bucket)), windows : Seq(Option(Window))]
NoBundle == [keys |-> <<>>, buckets |-> <<>>, windows |-> <<>>]
FreshBundle(ks, t) ==
    [keys |-> ks, buckets |-> LimiterNew(ks, t), windows |-> BudgetsNew(ks)]
-----------------------------------------------------------------------------
(* The document on disk.  `health' is what becomes of the other sections:  *)
(* "env" if an environment variable they name is not set (drgtw_config::   *)
(* load fails), "engine" if the PII or guardrail engine does not build.    *)
(* validate_str, which does not look at the environment, accepts all three.*)

Document == [keys : Keys, health : {"sound", "env", "engine"}]

\* Mutant: positions on the page are taken to count from zero twice.
BlockAtOffByOne(form, ks) == {form.idx + 1} \cap DOMAIN ks

\* The block a form is about, split_virtual_key_blocks's idx-th, if there is one.
BlockAt(form, ks) == {form.idx} \cap DOMAIN ks

\* keys_create, keys_update, keys_delete on the document's virtual keys: a
\* position that is out of range there changes nothing.
Transform(form, entry, ks) ==
    LET at == BlockAt(form, ks)
    IN CASE form.op = "create" -> Append(ks, entry)
         [] form.op # "create" /\ at = {} -> ks
         [] form.op = "update" /\ at # {} -> [ks EXCEPT ![The(at)] = entry]
         [] form.op = "delete" /\ at # {} -> RemoveAt(ks, The(at))

Form == [op : {"create", "update", "delete", "save"}, idx : Nat]
AdminPhases == {"idle", "form", "write", "load", "limiter", "budget", "store"}

\* form    the form being filled in or being written (a set: none or one)
\* shown   the secret of the key whose page the form was on
\* hit     the secret of the block the form replaced or removed
\* doc     the document about to be written, then the document loaded
\* old     the bundle the counters are copied from
\* next    the bundle under construction
\* page    the bundle the page shows
\* alone   nobody else has been changing the configuration since it started
\* calm    nobody else has changed or is changing the configuration: the file
\*         holds what is live, and the bundle the page showed is still live
Admin == [phase : AdminPhases, form : Option(Form), shown : Option(Secrets),
          hit : Option(Secrets), doc : Option(Document), old : Nat, next : Bundle,
          page : Nat, alone : BOOLEAN, calm : BOOLEAN]
IdleAdmin == [phase |-> "idle", form |-> {}, shown |-> {}, hit |-> {}, doc |-> {},
              old |-> 0, next |-> NoBundle, page |-> 0, alone |-> FALSE, calm |-> FALSE]

RequestPhases == {"idle", "authenticated", "limited", "dispatched", "recording"}
Request == [phase : RequestPhases, secret : Option(Secrets), idx : Nat,
            gen : Nat, target : Nat]
IdleRequest == [phase |-> "idle", secret |-> {}, idx |-> 0, gen |-> 0, target |-> 0]

\* taken    tokens the requests of a secret took since boot
\* billed   what the requests of a secret cost since boot
\* late     a charge fell between the copy of the counters and the swap, or on
\*          a bundle that a reload under way does not copy from
\* moved    a request was charged after its key's position had changed
\* drift    why the file may differ from the live configuration
Seen == [taken : [Secrets -> Nat], billed : [Secrets -> Nat],
         late : BOOLEAN, moved : BOOLEAN,
         drift : SUBSET {"saved", "failed", "raced"}]
NothingSeen == [taken |-> [s \in Secrets |-> 0], billed |-> [s \in Secrets |-> 0],
                late |-> FALSE, moved |-> FALSE, drift |-> {}]

VARIABLES now, disk, bundles, admin, req, seen
vars == <<now, disk, bundles, admin, req, seen>>

live == Len(bundles)
Live == bundles[live]

Init ==
    /\ now = 0
    /\ disk = [keys |-> FirstKeys, health |-> "sound"]
    /\ bundles = <<FreshBundle(FirstKeys, 0)>>
    /\ admin = [a \in Admins |-> IdleAdmin]
    /\ req = [r \in Requests |-> IdleRequest]
    /\ seen = NothingSeen

Tick ==
    /\ now < MaxTime
    /\ now' = now + 1
    /\ UNCHANGED <<disk, bundles, admin, req, seen>>
-----------------------------------------------------------------------------
(* Operators *)

Busy(a) == admin[a].phase \notin {"idle", "form"}

\* The page is rendered: the key list or a key's form, from the live config.
OpenPage(a) ==
    /\ admin[a].phase = "idle"
    /\ live + Cardinality({b \in Admins : admin[b].phase # "idle"}) < MaxBundles
    /\ \E op \in Ops :
       \E i \in IF op \in {"update", "delete"} THEN DOMAIN Live.keys ELSE {0} :
          admin' = [admin EXCEPT ![a] =
            [IdleAdmin EXCEPT
                !.phase = "form",
                !.form = {[op |-> op, idx |-> i]},
                !.shown = IF i = 0 THEN {} ELSE {Live.keys[i].key},
                !.page = live]]
    /\ UNCHANGED <<now, disk, bundles, req, seen>>

\* The operator leaves the page.
LeavePage(a) ==
    /\ admin[a].phase = "form"
    /\ admin' = [admin EXCEPT ![a] = IdleAdmin]
    /\ UNCHANGED <<now, disk, bundles, req, seen>>

\* a starts on the document `doc', at work beside the others from here on.
StartOn(a, doc, hit) ==
    LET others == {b \in Admins \ {a} : Busy(b)}
    IN admin' = [b \in Admins |->
          IF b = a
          THEN [admin[a] EXCEPT
                  !.phase = "write", !.doc = {doc}, !.hit = hit, !.page = 0,
                  !.alone = others = {},
                  !.calm = others = {} /\ seen.drift = {} /\ admin[a].page = live]
          ELSE [admin[b] EXCEPT !.alone = FALSE]]

\* A key form arrives: the handler checks its index against the live config,
\* reads the document, edits it and validates the result (apply_keys_mutation
\* and the start of Reloader::apply).
SubmitKeyForm(a) ==
    LET f == The(admin[a].form)
    IN /\ admin[a].phase = "form" /\ f.op # "save"
       /\ f.op = "create" => Len(disk.keys) < MaxKeys
       /\ \E e \in Entries :
             LET ks == Transform(f, e, disk.keys)
             IN IF (f.op # "create" => f.idx \in DOMAIN Live.keys) /\ Distinct(ks)
                THEN StartOn(a, [disk EXCEPT !.keys = ks],
                             {disk.keys[i].key : i \in BlockAt(f, disk.keys)})
                ELSE admin' = [admin EXCEPT ![a] = IdleAdmin]
       /\ UNCHANGED <<now, disk, bundles, req, seen>>

\* config_save: the virtual keys are replaced by what the textarea holds, or
\* another section is edited.
SubmitSave(a) ==
    /\ admin[a].phase = "form" /\ The(admin[a].form).op = "save"
    /\ \/ \E ks \in SeqOf(Entries, MaxKeys) :
             Distinct(ks) /\ StartOn(a, [disk EXCEPT !.keys = ks], {})
       \/ \E h \in {"sound", "env", "engine"} :
             StartOn(a, [disk EXCEPT !.health = h], {})
    /\ UNCHANGED <<now, disk, bundles, req, seen>>

EndEdit(a) == admin' = [admin EXCEPT ![a] = IdleAdmin]

\* write_safe renames a complete file over the old one.  config_save is done.
WriteDisk(a) ==
    /\ admin[a].phase = "write"
    /\ disk' = The(admin[a].doc)
    /\ IF The(admin[a].form).op = "save"
       THEN EndEdit(a) /\ seen' = [seen EXCEPT !.drift = @ \cup {"saved"}]
       ELSE /\ admin' = [admin EXCEPT ![a] =
                  [IdleAdmin EXCEPT !.phase = "load", !.alone = admin[a].alone]]
            /\ UNCHANGED seen
    /\ UNCHANGED <<now, bundles, req>>

\* The backup, the temporary file or the rename fails; the file is as it was.
WriteFails(a) ==
    /\ admin[a].phase = "write"
    /\ EndEdit(a)
    /\ UNCHANGED <<now, disk, bundles, req, seen>>

\* drgtw_config::load reads whatever the file holds by now.
LoadDisk(a) ==
    /\ admin[a].phase = "load"
    /\ IF disk.health = "env"
       THEN EndEdit(a) /\ seen' = [seen EXCEPT !.drift = @ \cup {"failed"}]
       ELSE /\ admin' = [admin EXCEPT ![a] =
                  [@ EXCEPT !.phase = "limiter", !.doc = {disk}, !.next.keys = disk.keys]]
            /\ UNCHANGED seen
    /\ UNCHANGED <<now, disk, bundles, req>>

\* build_live, first the limiter.  `old' is loaded once, for both counters.
CopyLimiter(a) ==
    /\ admin[a].phase = "limiter"
    /\ admin' = [admin EXCEPT ![a] =
          [@ EXCEPT !.phase = "budget", !.old = live,
                    !.next.buckets =
                        LimiterRebuild(Live.keys, Live.buckets, admin[a].next.keys, now)]]
    /\ UNCHANGED <<now, disk, bundles, req, seen>>

CopyBudgets(a) ==
    LET old == bundles[admin[a].old]
    IN /\ admin[a].phase = "budget"
       /\ admin' = [admin EXCEPT ![a] =
             [@ EXCEPT !.phase = "store",
                       !.next.windows =
                           BudgetsRebuild(old.keys, old.windows, admin[a].next.keys, now)]]
       /\ UNCHANGED <<now, disk, bundles, req, seen>>

\* build_engine_with_ner or GuardrailEngine::from_config refuses the document.
BuildFails(a) ==
    /\ admin[a].phase = "store"
    /\ The(admin[a].doc).health = "engine"
    /\ EndEdit(a)
    /\ seen' = [seen EXCEPT !.drift = @ \cup {"failed"}]
    /\ UNCHANGED <<now, disk, bundles, req>>

\* What a stored bundle does to the drift: an edit nobody disturbed leaves the
\* file and the live configuration the same.
NoteStore(a) ==
    seen' = [seen EXCEPT !.drift = IF admin[a].alone THEN {} ELSE @ \cup {"raced"}]

\* Mutant: the counters are swapped but the configuration is not.
StoreOldKeys(a) ==
    /\ admin[a].phase = "store"
    /\ The(admin[a].doc).health # "engine"
    /\ bundles' = Append(bundles, [admin[a].next EXCEPT !.keys = Live.keys])
    /\ NoteStore(a)
    /\ EndEdit(a)
    /\ UNCHANGED <<now, disk, req>>

\* The rest of build_live, then ArcSwap::store.
Store(a) ==
    /\ admin[a].phase = "store"
    /\ The(admin[a].doc).health # "engine"
    /\ bundles' = Append(bundles, admin[a].next)
    /\ NoteStore(a)
    /\ EndEdit(a)
    /\ UNCHANGED <<now, disk, req>>

\* The gateway stops and boots from the file: what is in memory is gone.  It
\* does not boot from a document that does not load.
Restart ==
    /\ disk.health = "sound"
    /\ bundles' = <<FreshBundle(disk.keys, now)>>
    /\ admin' = [a \in Admins |-> IdleAdmin]
    /\ req' = [r \in Requests |-> IdleRequest]
    /\ seen' = NothingSeen
    /\ UNCHANGED <<now, disk>>
-----------------------------------------------------------------------------
(* Requests *)

\* `state.live.load()', then KeyStore::authenticate.
Authenticate(r) ==
    /\ req[r].phase = "idle"
    /\ \E i \in DOMAIN Live.keys :
          req' = [req EXCEPT ![r] =
            [phase |-> "authenticated", secret |-> {Live.keys[i].key}, idx |-> i,
             gen |-> live, target |-> 0]]
    /\ UNCHANGED <<now, disk, bundles, admin, seen>>

\* RateLimiter::check on the request's own bundle.
CheckRate(r) ==
    LET g == req[r].gen
        i == req[r].idx
        bucket == bundles[g].buckets[i]
        allowed == \A b \in bucket : BucketAllows(b, now)
    IN /\ req[r].phase = "authenticated"
       /\ bundles' = [bundles EXCEPT ![g].buckets[i] = {BucketCheck(b, now) : b \in @}]
       /\ IF allowed
          THEN /\ req' = [req EXCEPT ![r].phase = "limited"]
               /\ seen' = [seen EXCEPT !.taken[The(req[r].secret)] = @ + 1]
          ELSE /\ req' = [req EXCEPT ![r] = IdleRequest]
               /\ UNCHANGED seen
       /\ UNCHANGED <<now, disk, admin>>

\* BudgetTracker::check on the request's own bundle.
CheckBudget(r) ==
    LET g == req[r].gen
        i == req[r].idx
        window == bundles[g].windows[i]
        allowed == \A w \in window : WindowAllows(w, now)
    IN /\ req[r].phase = "limited"
       /\ bundles' = [bundles EXCEPT ![g].windows[i] = {MaybeReset(w, now) : w \in @}]
       /\ req' = [req EXCEPT ![r] = IF allowed THEN [@ EXCEPT !.phase = "dispatched"]
                                    ELSE IdleRequest]
       /\ UNCHANGED <<now, disk, admin, seen>>

\* The request fails before its dispatch, or its response has no known cost.
EndUncharged(r) ==
    /\ req[r].phase = "dispatched"
    /\ req' = [req EXCEPT ![r] = IdleRequest]
    /\ UNCHANGED <<now, disk, bundles, admin, seen>>

\* The response is accounted: `state.live.load()' again ...
LoadForRecord(r) ==
    /\ req[r].phase = "dispatched"
    /\ req' = [req EXCEPT ![r].phase = "recording", ![r].target = live]
    /\ UNCHANGED <<now, disk, bundles, admin, seen>>

\* Operator a's reload will not see what bundle g counts from now on.
HasPassedBy(a, g) ==
    \/ admin[a].phase = "store"
    \/ admin[a].phase = "budget" /\ admin[a].old # g

\* ... and BudgetTracker::record there, under the key_id of authentication.
Record(r) ==
    LET g == req[r].target
        i == req[r].idx
        s == The(req[r].secret)
    IN /\ req[r].phase = "recording"
       /\ \E c \in Costs :
             /\ bundles' =
                   IF i \in DOMAIN bundles[g].windows
                   THEN [bundles EXCEPT ![g].windows[i] =
                            {WindowRecord(w, c, now) : w \in @}]
                   ELSE bundles
             /\ seen' = [seen EXCEPT
                   !.billed[s] = @ + c,
                   !.late = @ \/ g # live \/ \E a \in Admins : HasPassedBy(a, g),
                   !.moved = @ \/ i \notin Position(bundles[g].keys, s)]
       /\ req' = [req EXCEPT ![r] = IdleRequest]
       /\ UNCHANGED <<now, disk, admin>>

Next ==
    \/ Tick
    \/ Restart
    \/ \E a \in Admins :
          \/ OpenPage(a) \/ LeavePage(a) \/ SubmitKeyForm(a) \/ SubmitSave(a)
          \/ WriteDisk(a) \/ WriteFails(a) \/ LoadDisk(a) \/ CopyLimiter(a)
          \/ CopyBudgets(a) \/ BuildFails(a) \/ Store(a)
    \/ \E r \in Requests :
          \/ Authenticate(r) \/ CheckRate(r) \/ CheckBudget(r)
          \/ EndUncharged(r) \/ LoadForRecord(r) \/ Record(r)

Spec == Init /\ [][Next]_vars
-----------------------------------------------------------------------------
\* What bundle g configures for the secret s.
Configured(g, s) == {bundles[g].keys[i] : i \in Position(bundles[g].keys, s)}

\* A key pays for nobody but the requests of its own secret, through every reload:
\* for some limit it had since boot, what is missing in its bucket is at most what
\* its requests took, and its window holds at most what they cost, unless a
\* request ended after its key's position had changed.
ChargedToOwner ==
    \A g \in DOMAIN bundles : \A i \in DOMAIN bundles[g].keys :
        LET s == bundles[g].keys[i].key
        IN /\ \A b \in bundles[g].buckets[i] :
                 \E h \in DOMAIN bundles : \E e \in Configured(h, s) : \E rl \in e.rate :
                    b.tokens + seen.taken[s] * GRAIN >= rl.requests * GRAIN
           /\ ~seen.moved => \A w \in bundles[g].windows[i] : w.spent <= seen.billed[s]

\* While no window can have elapsed: the key had a budget in every bundle since
\* it is configured.
SteadyBudget(s) ==
    /\ \A g \in DOMAIN bundles : \A e \in Configured(g, s) :
          e.budget # {} /\ \A b \in e.budget : now < b.per
    /\ \A g \in DOMAIN bundles :
          g > 1 /\ Configured(g - 1, s) # {} => Configured(g, s) # {}

\* Reloads, failed reloads and overlapping reloads neither lose nor double a
\* charge: the live window holds exactly what the key's requests cost, unless
\* a charge fell between the copy of the counters and the swap, on a bundle that
\* an overlapping reload does not copy from, or after the key's position had
\* changed.
SpendCarriedExactly ==
    ~seen.moved /\ ~seen.late =>
        \A i \in DOMAIN Live.keys :
            LET s == Live.keys[i].key
            IN SteadyBudget(s) =>
                 \A w \in Live.windows[i] : w.spent = seen.billed[s]

\* Between edits the file holds the live virtual keys, so that a restart
\* changes no key, unless the last undisturbed key edit was followed by a save
\* on the configuration page, a failed reload or overlapping edits.
DivergenceExplained ==
    (\A a \in Admins : ~Busy(a)) /\ seen.drift = {} => disk.keys = Live.keys

\* With nothing else going on, an edit replaces or removes the key whose page
\* the operator was on.
EditHitsShownKey ==
    \A a \in Admins :
        admin[a].phase = "write" /\ admin[a].calm => admin[a].hit = admin[a].shown
-----------------------------------------------------------------------------
(* What documentation and comments say *)

\* reload.rs, module comment: "handlers that have already called
\* state.live.load() finish with the old config".  What a request costs is
\* charged to the key it authenticated with, or to none.
ChargedToAuthenticatedKey ==
    \A g \in DOMAIN bundles : \A i \in DOMAIN bundles[g].keys :
        \A w \in bundles[g].windows[i] :
            w.spent <= seen.billed[bundles[g].keys[i].key]

\* Reloader::apply: "Apply a new TOML document as the live config".  With key
\* edits only and none failed, the live config is what was last applied.
AppliedDocIsLive ==
    (\A a \in Admins : ~Busy(a)) /\ seen.drift \subseteq {"raced"}
        => disk.keys = Live.keys

\* BudgetTracker::rebuild_from: "a budget increase/decrease resets the window
\* so operators see clean state".
BudgetChangeResetsWindow ==
    \A a \in Admins :
        admin[a].phase = "store" =>
            \A i \in DOMAIN admin[a].next.keys :
            \A e \in Configured(admin[a].old, admin[a].next.keys[i].key) :
            \A b \in e.budget : \A w \in admin[a].next.windows[i] :
                w.max # b.max => w.spent = 0
=============================================================================
