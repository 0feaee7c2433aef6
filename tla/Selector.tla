------------------------------ MODULE Selector ------------------------------
(***************************************************************************)
(* The selector outbound (protocol/group/selector.go) with its interrupt   *)
(* group (common/interrupt).  Nothing in a selector is under a lock of its *)
(* own: SelectOutbound calls, the callbacks of the providers and the dials *)
(* of connections run in any order between the accesses to s.selected, the *)
(* lists, the cache file and the group.  A provider updates itself and     *)
(* then calls back, and does not begin again before it is through.         *)
(***************************************************************************)
EXTENDS Naturals, Sequences, Functions

CONSTANTS
  Configs,     \* the configurations: sequences of tags and of providers, a
               \* default tag or None and interrupt_exist_connections; and the
               \* selects and dials that a selector so configured sees
  Offers,      \* the sequences of tags each provider may come to offer
  Compatible,  \* the outbound that stands in for an empty list
  Selects,     \* the callers of SelectOutbound
  Dials,       \* the calls of DialContext, ListenPacket or NewConnection
  None

VARIABLES
  options,   \* the configuration of this selector
  tags,      \* s.tags; s.outbounds has the same tags
  selected,  \* s.selected
  saved,     \* the tag in the cache file
  offered,   \* the Outbounds() of each provider
  cache,     \* s.outboundsCache; nil is the empty sequence
  select,    \* each SelectOutbound: where it is and its tag
  update,    \* each onProviderUpdated: where it is, the list it has gathered
             \* from how many providers, the outbound it chose
  conns,     \* each dial: where it is, its outbound, whether it is external
  toClose,   \* the connections each caller of Interrupt has still to close
  late,      \* auxiliary: connections registered when their outbound was not selected
  overlap    \* auxiliary: the kinds of calls that ran while an update did,
             \* or while another SelectOutbound did

lists == <<offered, cache, tags>>
vars == <<options, lists, selected, saved, select, update, conns, toClose, late, overlap>>

Tags == DOMAIN Offers
Providers == options.providers
Listed == Range(tags)
AllTags ==
  (UNION {Range(o.outbounds) : o \in Configs})
    \union (UNION {UNION {Range(o) : o \in Offers[p]} : p \in Tags}) \union {Compatible}

(* What Start insists on: a provider is found by its tag, and the default  *)
(* is one of the configured tags, which are all there are at that time.    *)
(* (A choice in the cache file keeps it from looking at the default; the   *)
(* model leaves out a wrong default behind such a choice.)                 *)
ASSUME ConfigsAssumption ==
  \A o \in Configs :
    /\ o.outbounds \in Seq(AllTags)
    /\ o.providers \in Seq(Tags)
    /\ o.default \in Range(o.outbounds) \union {None}

ASSUME OffersAssumption == \A p \in Tags : Offers[p] \subseteq Seq(AllTags)

OrCompatible(ts) == IF ts = << >> THEN <<Compatible>> ELSE ts

(* The tag in the cache file, the default or the first. *)
outboundSelect(ts) ==
  IF saved \in Range(ts) THEN saved ELSE IF options.default # None THEN options.default ELSE Head(ts)

NotCalled == [pc |-> "idle", tag |-> None]
Idle == [pc |-> "idle", from |-> 0, list |-> << >>, detour |-> None]

(* Start. *)
Init ==
  /\ options \in Configs
  /\ tags = OrCompatible(options.outbounds)
  /\ saved \in AllTags \union {None}
  /\ selected = outboundSelect(tags)
  /\ offered = [p \in Tags |-> << >>]
  /\ cache = [p \in Tags |-> << >>]
  /\ select = [i \in Selects |-> NotCalled]
  /\ update = [p \in Tags |-> Idle]
  /\ conns = [d \in Dials |-> [pc |-> "idle", via |-> None, external |-> FALSE]]
  /\ toClose = [i \in Selects \union Tags |-> {}]
  /\ late = {}
  /\ overlap = {}

Selecting == {i \in Selects : select[i].pc \in {"swap", "store"}}
Updating == {p \in Tags : update[p].pc # "idle"}

-----------------------------------------------------------------------------
(* DialContext, ListenPacket, NewConnection and Conn.Close. *)

Closed == [pc |-> "closed", via |-> None, external |-> FALSE]

(* s.selected.Load(), then the dial. *)
Load(d, external) ==
  /\ conns[d].pc = "idle"
  /\ d \in options.dials
  /\ conns' = [conns EXCEPT ![d] = [pc |-> "dialled", via |-> selected, external |-> external]]
  /\ UNCHANGED <<lists, selected, saved, select, update, toClose, late, overlap>>

DialFails(d) ==
  /\ conns[d].pc = "dialled"
  /\ conns' = [conns EXCEPT ![d] = Closed]
  /\ UNCHANGED <<lists, selected, saved, select, update, toClose, late, overlap>>

(* interruptGroup.NewConn. *)
NewConn(d) ==
  /\ conns[d].pc = "dialled"
  /\ conns' = [conns EXCEPT ![d].pc = "grouped"]
  /\ late' = IF conns[d].via = selected THEN late ELSE late \union {d}
  /\ UNCHANGED <<lists, selected, saved, select, update, toClose, overlap>>

CloseConn(d) ==
  /\ conns[d].pc \in {"grouped", "removed"}
  /\ conns' = [conns EXCEPT ![d] = Closed]
  /\ late' = late \ {d}
  /\ UNCHANGED <<lists, selected, saved, select, update, toClose, overlap>>

-----------------------------------------------------------------------------
(* Group.Interrupt: the connections are taken from the list under its      *)
(* lock and closed one by one after it.                                    *)

Affected(d) == ~ conns[d].external \/ options.interrupt

(* Mutant: what is external is left alone whatever the setting. *)
InterruptInternal(i) ==
  LET hit == {d \in Dials : conns[d].pc = "grouped" /\ ~ conns[d].external} IN
  /\ toClose' = [toClose EXCEPT ![i] = hit]
  /\ conns' = [d \in Dials |-> IF d \in hit THEN [conns[d] EXCEPT !.pc = "removed"] ELSE conns[d]]

Interrupt(i) ==
  LET hit == {d \in Dials : conns[d].pc = "grouped" /\ Affected(d)} IN
  /\ toClose' = [toClose EXCEPT ![i] = hit]
  /\ conns' = [d \in Dials |-> IF d \in hit THEN [conns[d] EXCEPT !.pc = "removed"] ELSE conns[d]]

CloseOne(i, d) ==
  /\ d \in toClose[i]
  /\ toClose' = [toClose EXCEPT ![i] = @ \ {d}]
  /\ conns' = [conns EXCEPT ![d] = Closed]
  /\ late' = late \ {d}
  /\ UNCHANGED <<lists, selected, saved, select, update, overlap>>

-----------------------------------------------------------------------------
(* SelectOutbound. *)

Lookup(i, tag) ==
  /\ select[i].pc = "idle"
  /\ toClose[i] = {}
  /\ i \in options.selects
  /\ tag \in Listed
  /\ select' = [select EXCEPT ![i] = [pc |-> "swap", tag |-> tag]]
  /\ overlap' = IF Selecting = {} /\ Updating = {} THEN overlap ELSE overlap \union {"select"}
  /\ UNCHANGED <<lists, selected, saved, update, conns, toClose, late>>

Swap(i) ==
  /\ select[i].pc = "swap"
  /\ selected' = select[i].tag
  /\ select' = [select EXCEPT ![i] = IF selected = @.tag THEN NotCalled ELSE [@ EXCEPT !.pc = "store"]]
  /\ UNCHANGED <<lists, saved, update, conns, toClose, late, overlap>>

(* Mutant: the selection is not stored. *)
StoreForgotten(i) ==
  /\ select[i].pc = "store"
  /\ select' = [select EXCEPT ![i] = [pc |-> "interrupt", tag |-> None]]
  /\ UNCHANGED <<lists, selected, saved, update, conns, toClose, late, overlap>>

(* cacheFile.StoreSelected. *)
Store(i) ==
  /\ select[i].pc = "store"
  /\ saved' = select[i].tag
  /\ select' = [select EXCEPT ![i] = [pc |-> "interrupt", tag |-> None]]
  /\ UNCHANGED <<lists, selected, update, conns, toClose, late, overlap>>

SelectInterrupts(i) ==
  /\ select[i].pc = "interrupt"
  /\ Interrupt(i)
  /\ select' = [select EXCEPT ![i] = NotCalled]
  /\ UNCHANGED <<lists, selected, saved, update, late, overlap>>

-----------------------------------------------------------------------------
(* onProviderUpdated. *)

(* The provider has changed its list and calls back. *)
Begin(p, offer) ==
  /\ update[p].pc = "idle"
  /\ toClose[p] = {}
  /\ p \in Range(Providers)
  /\ offered' = [offered EXCEPT ![p] = offer]
  /\ update' = [update EXCEPT ![p] = [Idle EXCEPT !.pc = "gather", !.list = options.outbounds]]
  /\ overlap' = overlap \union (IF Updating # {} THEN {"update"} ELSE {})
                       \union (IF Selecting # {} THEN {"select"} ELSE {})
  /\ UNCHANGED <<cache, tags, selected, saved, select, conns, toClose, late>>

(* Mutant: what is cached is also used for the provider that calls back. *)
GatherCached(p) ==
  LET q == Providers[update[p].from + 1]
      got == IF cache[q] # << >> THEN cache[q] ELSE offered[q]
  IN
  /\ update[p].pc = "gather"
  /\ cache' = [cache EXCEPT ![q] = got]
  /\ update' = [update EXCEPT ![p].list = @ \o got, ![p].from = @ + 1,
                              ![p].pc = IF update[p].from + 1 = Len(Providers) THEN "replace" ELSE @]
  /\ UNCHANGED <<offered, tags, selected, saved, select, conns, toClose, late, overlap>>

(* The list of the next provider: what is cached, or what it offers.  The  *)
(* filters are left out: an offer is what passes them.                     *)
Gather(p) ==
  LET q == Providers[update[p].from + 1]
      got == IF q # p /\ cache[q] # << >> THEN cache[q] ELSE offered[q]
  IN
  /\ update[p].pc = "gather"
  /\ cache' = [cache EXCEPT ![q] = got]
  /\ update' = [update EXCEPT ![p].list = @ \o got, ![p].from = @ + 1,
                              ![p].pc = IF update[p].from + 1 = Len(Providers) THEN "replace" ELSE @]
  /\ UNCHANGED <<offered, tags, selected, saved, select, conns, toClose, late, overlap>>

Replace(p) ==
  /\ update[p].pc = "replace"
  /\ tags' = OrCompatible(update[p].list)
  /\ update' = [update EXCEPT ![p] = [Idle EXCEPT !.pc = "select"]]
  /\ UNCHANGED <<offered, cache, selected, saved, select, conns, toClose, late, overlap>>

SelectAgain(p) ==
  /\ update[p].pc = "select"
  /\ update' = [update EXCEPT ![p] = [Idle EXCEPT !.pc = "swap", !.detour = outboundSelect(tags)]]
  /\ UNCHANGED <<lists, selected, saved, select, conns, toClose, late, overlap>>

SwapAgain(p) ==
  /\ update[p].pc = "swap"
  /\ selected' = update[p].detour
  /\ update' = [update EXCEPT ![p] = [Idle EXCEPT !.pc = IF selected = selected' THEN "idle" ELSE "interrupt"]]
  /\ UNCHANGED <<lists, saved, select, conns, toClose, late, overlap>>

UpdateInterrupts(p) ==
  /\ update[p].pc = "interrupt"
  /\ Interrupt(p)
  /\ update' = [update EXCEPT ![p] = Idle]
  /\ UNCHANGED <<lists, selected, saved, select, late, overlap>>

-----------------------------------------------------------------------------
SelectOutbound(i) ==
  \/ Swap(i) \/ Store(i) \/ SelectInterrupts(i)
  \/ \E d \in Dials : CloseOne(i, d)

onProviderUpdated(p) ==
  \/ Gather(p) \/ Replace(p) \/ SelectAgain(p) \/ SwapAgain(p) \/ UpdateInterrupts(p)
  \/ \E d \in Dials : CloseOne(p, d)

Next ==
  /\ UNCHANGED options
  /\ \/ \E i \in Selects : SelectOutbound(i) \/ \E t \in Listed : Lookup(i, t)
     \/ \E p \in Tags : onProviderUpdated(p) \/ \E offer \in Offers[p] : Begin(p, offer)
     \/ \E d \in Dials :
          (\E x \in BOOLEAN : Load(d, x)) \/ DialFails(d) \/ NewConn(d) \/ CloseConn(d)

Spec == Init /\ [][Next]_vars

(* A call that has begun goes on; no one has to select, dial or update. *)
FairSpec ==
  /\ Spec
  /\ \A i \in Selects : WF_vars(SelectOutbound(i) /\ UNCHANGED options)
  /\ \A p \in Tags : WF_vars(onProviderUpdated(p) /\ UNCHANGED options)

-----------------------------------------------------------------------------
(* The configured tags and what the first n providers offer. *)
Gathered[n \in 0 .. Len(Providers)] ==
  IF n = 0 THEN options.outbounds ELSE Gathered[n - 1] \o offered[Providers[n]]

(* Callbacks that do not overlap leave the list of the configured tags and *)
(* of what every provider offers, in their order, though each one reads    *)
(* only its own provider and takes the others from outboundsCache.         *)
ListComplete ==
  Updating = {} /\ "update" \notin overlap => tags = OrCompatible(Gathered[Len(Providers)])

(* Calls that do not overlap leave the selector on an outbound it offers,  *)
(* and on the one in the cache file as long as that is offered, so that a  *)
(* restart or the next update of a provider changes nothing.               *)
SelectionAgrees ==
  Updating = {} /\ Selecting = {} /\ overlap = {} =>
    /\ selected \in Listed
    /\ saved \in Listed => selected = saved

(* A connection that was in the group when the selection moved away from   *)
(* its outbound is closed, if it is internal or the setting asks for it.   *)
ChangeInterrupts ==
  \A d \in Dials :
    (conns[d].pc = "grouped" /\ d \notin late /\ Affected(d) /\ conns[d].via # selected)
      ~> conns[d].pc = "closed"

(* docs/configuration/outbound/selector.md:36-38: existing connections are *)
(* interrupted when the selected outbound has changed, internal ones       *)
(* always.                                                                 *)
DocInterrupted ==
  \A d \in Dials :
    (conns[d].pc = "grouped" /\ Affected(d) /\ conns[d].via # selected)
      ~> conns[d].pc = "closed"
=============================================================================
