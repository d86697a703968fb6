------------------------------- MODULE Assets -------------------------------
(***************************************************************************)
(* The applications an installation knows of and the events that belong to *)
(* them: the JSON import (plugins/json_assets), the Proxmox sync           *)
(* (plugins/proxmox_assets), which run at their interval or at the push of *)
(* a button, the edit of an application's host and the clean-up of the     *)
(* inactive ones (api/pages.py), the lock that keeps imports apart         *)
(* (services/asset_actions.py) and the links from events to applications   *)
(* (services/asset_hosts.py).                                              *)
(*                                                                         *)
(* An import and an edit load their rows before they wait for any lock,    *)
(* and write the columns that differ from what they loaded: a host that    *)
(* others have changed meanwhile is not put back, and a row that has been  *)
(* deleted makes them fail as a whole.  Every JSON application is on a     *)
(* system of its own, and no inventory lists an application twice.         *)
(***************************************************************************)
EXTENDS Integers, FiniteSets, Sequences, SequencesExt

CONSTANTS
    JsonApps, GuestApps,  \* the applications of the two sources
    Hosts, NoHost,        \* what host_url may name, and that it is empty
    Runners,              \* those who run imports: the loop, the buttons
    Editors,              \* those who edit applications
    MaxId, MaxEvents      \* bounds: asset rows, stored events

AssetsAssumption ==
    /\ JsonApps \intersect GuestApps = {} /\ IsFiniteSet(JsonApps \union GuestApps)
    /\ NoHost \notin Hosts /\ MaxId \in Nat \ {0} /\ MaxEvents \in Nat
    /\ "nobody" \notin Runners

VARIABLES
    rows,      \* the asset rows by id
    events,    \* the stored events: their host and their asset_id, 0 for none
    external,  \* apps_master is "external"
    action,    \* the runner that holds the asset action lock
    run,       \* what each runner is doing, and what it has read
    edit,      \* the row and the host each edit under way has loaded
    hostmap,   \* the host map the running datasource tick has cached
    settled    \* ids whose links an edit has made, and nothing has upset since

Avars == <<rows, events, external, action, run, edit, hostmap, settled>>

Apps == JsonApps \union GuestApps
Ids == DOMAIN rows
NoMap == [h \in {} |-> 0]
Nobody == "nobody"
Idle == [at |-> "idle"]
NoEdit == [id |-> 0, host |-> NoHost]

AssetsTypeOK ==
    /\ Ids \subseteq 1..MaxId
    /\ rows \in [Ids -> [app : Apps, known : BOOLEAN, host : Hosts \union {NoHost}, active : BOOLEAN]]
    /\ events \in Seq([host : Hosts, asset : 0..MaxId]) /\ Len(events) <= MaxEvents
    /\ external \in BOOLEAN
    /\ action \in Runners \union {Nobody}
    /\ DOMAIN run = Runners
    /\ \A p \in Runners : run[p].at \in {"idle", "load", "write"}
    /\ edit \in [Editors -> [id : 0..MaxId, host : Hosts \union {NoHost}]]
    /\ hostmap = NoMap \/ hostmap \in [Hosts -> 0..MaxId]
    /\ settled \subseteq Ids

(* Nothing is known yet, or one application of a version that did not      *)
(* record where a row came from.                                           *)
AssetsInit ==
    /\ \/ rows = <<>>
       \/ \E a \in JsonApps, h \in Hosts :
            rows = <<[app |-> a, known |-> FALSE, host |-> h, active |-> TRUE]>>
    /\ events = <<>> /\ external \in BOOLEAN
    /\ action = Nobody /\ run = [p \in Runners |-> Idle]
    /\ edit = [e \in Editors |-> NoEdit]
    /\ hostmap = NoMap /\ settled = {}

(***************************************************************************)
(* Imports                                                                 *)
(***************************************************************************)
Source(kind) == IF kind = "json" THEN JsonApps ELSE GuestApps

(* What an inventory says of an application: its system is not in it, the  *)
(* system is and the application is not, or the host.                      *)
JsonInventories == [JsonApps -> {"unlisted", "gone", NoHost} \union Hosts]

(* What a server says: an application is in the notes of a guest, which    *)
(* have no hosts, or it is not, as when the guest is hidden or its notes   *)
(* cannot be read.                                                         *)
NotesSay == {"gone", NoHost}
GuestInventories == [GuestApps -> NotesSay]

Inventories(kind) == IF kind = "json" THEN JsonInventories ELSE GuestInventories

Listed(inv) == {a \in DOMAIN inv : inv[a] \notin {"unlisted", "gone"}}
Missing(inv) == {a \in DOMAIN inv : inv[a] = "gone"}

(* The row an import takes for an application: the one that has its        *)
(* external id, else for JSON one of its name that has none.               *)
RowsOf(a, known) == {i \in Ids : rows[i].app = a /\ rows[i].known = known}
FoundRow(a) ==
    LET own == RowsOf(a, TRUE)
        named == IF a \in JsonApps THEN RowsOf(a, FALSE) ELSE {}
        these == IF own # {} THEN own ELSE named
    IN  IF these = {} THEN 0 ELSE CHOOSE i \in these : \A k \in these : i <= k

(* run_asset_action: the lock is tried, never waited for. *)
Free(p) == action = Nobody

BeginAction(p, kind) ==
    /\ run[p].at = "idle" /\ Free(p)
    /\ action' = p
    /\ run' = [run EXCEPT ![p] = [at |-> "load", kind |-> kind]]
    /\ UNCHANGED <<rows, events, external, edit, hostmap, settled>>

ImportJson(p) == BeginAction(p, "json")
SyncProxmox(p) == BeginAction(p, "proxmox")

End(p) ==
    /\ run' = [run EXCEPT ![p] = Idle]
    /\ action' = IF action = p THEN Nobody ELSE action

Fails(p, kind) ==
    /\ run[p].at = "load" /\ run[p].kind = kind
    /\ End(p)
    /\ UNCHANGED <<rows, events, external, edit, hostmap, settled>>

(* The file or the URL cannot be read, or is no inventory. *)
SourceFails(p) == Fails(p, "json")

(* The Proxmox server cannot be reached, or answers with an error. *)
ServerFails(p) == Fails(p, "proxmox")

(* What the import will write: the rows it has looked up, if only for      *)
(* last_seen, and those it has to deactivate.                              *)
Touched(inv) ==
    LET found == {FoundRow(a) : a \in Listed(inv)} \ {0}
        missing == {i \in Ids : rows[i].known /\ rows[i].app \in Missing(inv)}
    IN  found \union {i \in missing : rows[i].active}

(* The applications whose host it will write, when it is the master.       *)
Moved(inv) == {a \in Listed(inv) : FoundRow(a) \in Ids /\ inv[a] # rows[FoundRow(a)].host}

Load(p) ==
    /\ run[p].at = "load"
    /\ \E inv \in Inventories(run[p].kind) :
         run' = [run EXCEPT ![p] =
           [at |-> "write", kind |-> @.kind, inv |-> inv,
            found |-> [a \in Listed(inv) |-> FoundRow(a)], touched |-> Touched(inv),
            moved |-> IF external /\ @.kind = "json" THEN Moved(inv) ELSE {}]]
    /\ UNCHANGED <<rows, events, external, action, edit, hostmap, settled>>

HostAfter(r, a, now) == IF a \in r.moved THEN r.inv[a] ELSE now

Updated(r) ==
    [i \in Ids |->
       LET held == rows[i].app
       IN  CASE \E b \in Listed(r.inv) : r.found[b] = i ->
                  [rows[i] EXCEPT !.known = TRUE, !.active = TRUE,
                                  !.host = HostAfter(r, held, @)]
             [] rows[i].known /\ held \in Missing(r.inv) ->
                  [rows[i] EXCEPT !.active = FALSE]
             [] OTHER -> rows[i]]

Top(ids) == IF ids = {} THEN 0 ELSE CHOOSE i \in ids : \A k \in ids : k <= i

(* New rows get the next ids: the highest one that is left, plus one. *)
Added(r) == SetToSeq({a \in Listed(r.inv) : r.found[a] = 0})
NewRow(r, a) ==
    [app |-> a, known |-> TRUE, active |-> TRUE,
     host |-> IF r.kind = "json" THEN r.inv[a] ELSE NoHost]

WriteImport(p) ==
    /\ run[p].at = "write"
    /\ LET r == run[p]
           base == Top(Ids)
           new == Added(r)
           all == Ids \union {base + n : n \in DOMAIN new}
           rewritten == Updated(r)
           after == [i \in all |-> IF i \in Ids THEN rewritten[i] ELSE NewRow(r, new[i - base])]
           unique == \A n \in DOMAIN new : RowsOf(new[n], TRUE) = {}
       IN  IF r.touched \subseteq Ids /\ unique
           THEN /\ base + Len(new) <= MaxId
                /\ rows' = after
                /\ settled' = {i \in settled : after[i].host = rows[i].host}
           ELSE UNCHANGED <<rows, settled>>    \* rolled back
    /\ End(p)
    /\ UNCHANGED <<events, external, edit, hostmap>>

(***************************************************************************)
(* The operator                                                            *)
(***************************************************************************)
SwitchMaster ==
    /\ external' = ~external
    /\ UNCHANGED <<rows, events, action, run, edit, hostmap, settled>>

AttachedOnly(i, h) ==
    [n \in DOMAIN events |->
       IF events[n].host = h THEN [events[n] EXCEPT !.asset = i] ELSE events[n]]

(* sync_asset_host_events: what matches is attached, what does not is      *)
(* detached.                                                               *)
Synced(i, h) ==
    [n \in DOMAIN events |->
       CASE events[n].host = h -> [events[n] EXCEPT !.asset = i]
         [] events[n].host # h /\ events[n].asset = i -> [events[n] EXCEPT !.asset = 0]
         [] OTHER -> events[n]]

(* The request loads the row.  It is refused while another edit of it is   *)
(* being saved, and fails if the row is gone.                              *)
OpenEdit(e, i) ==
    /\ edit[e] = NoEdit /\ ~external
    /\ IF i \in Ids THEN rows[i].active ELSE FALSE
    /\ edit' = [edit EXCEPT ![e] = [id |-> i, host |-> rows[i].host]]
    /\ UNCHANGED <<rows, events, external, action, run, hostmap, settled>>

RefuseEdit(e) ==
    /\ edit[e] # NoEdit /\ edit' = [edit EXCEPT ![e] = NoEdit]
    /\ UNCHANGED <<rows, events, external, action, run, hostmap, settled>>

(* No UPDATE is issued for the host that was loaded, although the row may  *)
(* have another by now; the links are made by what was posted.             *)
Unwritten(e, h) == h = edit[e].host /\ rows[edit[e].id].host # h

SaveEdit(e, h) ==
    LET i == edit[e].id
    IN  /\ i \in Ids
        /\ rows' = IF Unwritten(e, h) THEN rows ELSE [rows EXCEPT ![i].host = h]
        /\ events' = Synced(i, h)
        /\ settled' = IF hostmap = NoMap /\ ~Unwritten(e, h) THEN settled \union {i}
                      ELSE settled \ {i}
        /\ edit' = [edit EXCEPT ![e] = NoEdit]
        /\ UNCHANGED <<external, action, run, hostmap>>

CleanUpInactive ==
    LET left == {i \in Ids : rows[i].active}
    IN  /\ left # Ids
        /\ rows' = [i \in left |-> rows[i]]
        /\ settled' = settled \intersect left
        /\ UNCHANGED <<events, external, action, run, edit, hostmap>>

(***************************************************************************)
(* A datasource tick                                                       *)
(***************************************************************************)
(* The first active row with the host, as it was when the tick first asked *)
Mapped(h) ==
    LET these == {i \in Ids : rows[i].host = h /\ rows[i].active}
    IN  IF these = {} THEN 0 ELSE CHOOSE i \in these : \A k \in these : i <= k

HostMap == IF hostmap = NoMap THEN [h \in Hosts |-> Mapped(h)] ELSE hostmap

StoreEvent(h) ==
    /\ Len(events) < MaxEvents
    /\ hostmap' = HostMap
    /\ events' = Append(events, [host |-> h, asset |-> IF HostMap[h] \in Ids THEN HostMap[h] ELSE 0])
    /\ UNCHANGED <<rows, external, action, run, edit, settled>>

EndTick ==
    /\ hostmap # NoMap /\ hostmap' = NoMap
    /\ UNCHANGED <<rows, events, external, action, run, edit, settled>>

AssetsNext ==
    \/ \E p \in Runners :
         \/ ImportJson(p) \/ SyncProxmox(p)
         \/ SourceFails(p) \/ ServerFails(p) \/ Load(p) \/ WriteImport(p)
    \/ SwitchMaster
    \/ \E e \in Editors :
         \/ \E i \in 1..MaxId : OpenEdit(e, i)
         \/ \E h \in Hosts \union {NoHost} : SaveEdit(e, h)
         \/ RefuseEdit(e)
    \/ CleanUpInactive
    \/ \E h \in Hosts : StoreEvent(h)
    \/ EndTick

AssetsSpec == AssetsInit /\ [][AssetsNext]_Avars

-----------------------------------------------------------------------------
(* sync_asset_host_events: after an edit no event is left behind on the    *)
(* application for a host it used to have, until an import changes the     *)
(* host or a tick that began before the edit goes on storing.  Not so of   *)
(* an edit whose host was not written because its row was loaded before    *)
(* another edit or import changed it.                                      *)
EditedLinksMatch ==
    \A n \in DOMAIN events :
      events[n].asset \in settled => rows[events[n].asset].host = events[n].host

(* The same of every application, which neither an import, a tick nor two  *)
(* overlapping edits keep ("otherwise tables would keep stale links",      *)
(* asset_hosts.py:105).                                                    *)
LinksMatch ==
    \A n \in DOMAIN events :
      events[n].asset \in Ids => rows[events[n].asset].host = events[n].host

(* An edit "must both attach newly matching events and detach events that  *)
(* matched the previous host" (asset_hosts.py:103): what is linked to an   *)
(* application right after an edit has its host.                           *)
EditRebuilds ==
    [][\A e \in Editors, h \in Hosts \union {NoHost} :
         SaveEdit(e, h) =>
           \A n \in DOMAIN events :
             events'[n].asset = edit[e].id => events'[n].host = rows'[edit[e].id].host]_Avars

(* A row is no other application's than the one its events were linked to. *)
(* The clean-up leaves their asset_id behind, and ids come back.           *)
NoHeirs ==
    [][\A n \in DOMAIN events :
         events[n].asset # 0 /\ events[n].asset \notin Ids => events[n].asset \notin Ids']_Avars

(* "Missing apps are marked inactive and kept for history." (json_assets/  *)
(* plugin.py:78): an import that lists no system of an application leaves  *)
(* the application active.                                                 *)
MissingDeactivated ==
    [][\A p \in Runners, i \in Ids :
         run[p].at = "write" /\ run'[p].at = "idle" /\ run[p].kind = "json" /\ i \in Ids' =>
           (rows[i].known /\ rows[i].app \in JsonApps /\ rows[i].app \notin Listed(run[p].inv) =>
              ~rows'[i].active)]_Avars
=============================================================================
