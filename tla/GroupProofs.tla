----------------------------- MODULE GroupProofs -----------------------------
(***************************************************************************)
(* The selector and the urltest group, for any configurations, offers,     *)
(* histories and callers.                                                  *)
(***************************************************************************)
EXTENDS Selector, URLTestGroup, WellFoundedInduction, TLAPS

(* What a leaf is tried with that names no prover of its own. *)
USE SMT, Zenon, Z3T(40), SMTT(40), ZenonT(120)

SelectPlaces == {"idle", "swap", "store", "interrupt"}
UpdatePlaces == {"idle", "gather", "replace", "select", "swap", "interrupt"}

Lists == Seq(AllTags)

(* Types; a list that is in use is not empty and has the configured tags,  *)
(* and so has one that is being gathered.                                  *)
SelectorTypes ==
  /\ options \in Configs
  /\ tags \in Lists \ {<< >>}
  /\ offered \in [Tags -> Lists]
  /\ cache \in [Tags -> Lists]
  /\ select \in [Selects -> [pc : SelectPlaces, tag : AllTags \union {None}]]
  /\ update \in [Tags -> [pc : UpdatePlaces, from : Nat, list : Lists, detour : AllTags \union {None}]]
  /\ overlap \in SUBSET {"select", "update"}
  /\ saved \in AllTags \union {None}

Configured ==
  /\ Range(options.outbounds) \subseteq Range(tags)
  /\ \A p \in Tags : update[p].pc \in {"gather", "replace"} =>
       Range(options.outbounds) \subseteq Range(update[p].list)
  /\ \A p \in Tags : update[p].pc = "gather" => update[p].from < Len(Providers)

(* The callback of p has the list of the providers so far, the last of     *)
(* whose entries in outboundsCache it has written itself.                  *)
Fresh(q) == cache[q] \in {<< >>, offered[q]}

GatheredSoFar(p) ==
  /\ update[p].pc = "gather" =>
       /\ \E k \in 1 .. Len(Providers) : Providers[k] = p /\ (k <= update[p].from => Fresh(p))
       /\ \A q \in Tags \ {p} : Fresh(q)
       /\ update[p].list = Gathered[update[p].from]
  /\ update[p].pc = "replace" => update[p].list = Gathered[Len(Providers)]

Gathering == {p \in Tags : update[p].pc = "gather"}
Listing == {p \in Tags : update[p].pc \in {"gather", "replace"}}

ListsAgree ==
  "update" \notin overlap =>
    /\ \A p, q \in Updating : p = q
    /\ \A p \in Tags : GatheredSoFar(p)
    /\ Gathering = {} => \A q \in Tags : Fresh(q)
    /\ Listing = {} => tags = OrCompatible(Gathered[Len(Providers)])

(* The outbound is one that is offered, and the saved one if that is.      *)
Agrees(o) == o \in Listed /\ (saved \in Listed => o = saved)

Unsettled == {p \in Tags : update[p].pc \in {"gather", "replace", "select", "swap"}}
Storing == {i \in Selects : select[i].pc = "store"}

ChoiceAgrees ==
  overlap = {} =>
    /\ Updating # {} => Selecting = {}
    /\ \A i, j \in Selecting : i = j
    /\ \A i \in Selecting : select[i].tag \in Listed
    /\ \A i \in Storing : selected = select[i].tag
    /\ \A p \in Tags : update[p].pc = "swap" => Agrees(update[p].detour)
    /\ Unsettled = {} /\ Storing = {} => Agrees(selected)

SelectorInv == SelectorTypes /\ Configured /\ ListsAgree /\ ChoiceAgrees

-----------------------------------------------------------------------------
(* Induction by the least counterexample. *)
LEMMA LeastNat ==
  ASSUME NEW T, T \subseteq Nat, T # {}
  PROVE  \E n \in T : \A m \in T : n <= m
<1> DEFINE R == OpToRel(<, Nat)
<1>1. IsWellFoundedOn(R, Nat)
  BY NatLessThanWellFounded, Zenon
<1>2. ASSUME NEW m \in Nat, NEW n \in Nat, ~ (<<m, n>> \in R)
      PROVE  n <= m
  <2>1. <<m, n>> \in Nat \X Nat
    OBVIOUS
  <2>2. ~ m < n
    BY <1>2, <2>1, Zenon DEF OpToRel
  <2> QED BY <2>2
<1> HIDE DEF R
<1>3. \E n \in T : \A m \in T : ~ (<<m, n>> \in R)
  BY <1>1, WFMin, Zenon
<1> QED BY <1>2, <1>3, Zenon

(* Gathered, for given tags, providers and offers. *)
IsJoined(g, ts, ps, offers, k) ==
  g = [n \in 0 .. k |-> IF n = 0 THEN ts ELSE g[n - 1] \o offers[ps[n]]]

LEMMA JoinedExists ==
  ASSUME NEW ts, NEW ps, NEW offers, NEW k \in Nat
  PROVE  \E g : IsJoined(g, ts, ps, offers, k)
<1> DEFINE T == {n \in Nat : ~ \E g : IsJoined(g, ts, ps, offers, n)}
<1> SUFFICES ASSUME T # {} PROVE FALSE
  OBVIOUS
<1>1. PICK n \in T : \A m \in T : n <= m
  <2> T \subseteq Nat OBVIOUS
  <2> HIDE DEF T
  <2> QED BY LeastNat, Zenon
<1>2. n \in Nat /\ ~ \E g : IsJoined(g, ts, ps, offers, n)
  OBVIOUS
<1>3. n # 0
  <2>1. IsJoined([i \in 0 .. 0 |-> ts], ts, ps, offers, 0)
    BY DEF IsJoined
  <2> QED BY <1>2, <2>1
<1>4. n - 1 \in Nat /\ n - 1 \notin T
  <2> HIDE DEF T
  <2> QED BY <1>1, <1>2, <1>3
<1>5. PICK g : IsJoined(g, ts, ps, offers, n - 1)
  BY <1>4
<1> HIDE DEF T
<1> DEFINE h == [i \in 0 .. n |-> IF i = n THEN g[n - 1] \o offers[ps[n]] ELSE g[i]]
<1>6. IsJoined(h, ts, ps, offers, n)
  <2>1. \A i \in 0 .. n - 1 : g[i] = IF i = 0 THEN ts ELSE g[i - 1] \o offers[ps[i]]
    BY <1>5, Zenon DEF IsJoined
  <2>2. ASSUME NEW i \in 0 .. n
        PROVE  h[i] = IF i = 0 THEN ts ELSE h[i - 1] \o offers[ps[i]]
    <3>1. CASE i = 0
      <4>1. i \in 0 .. n - 1 /\ i # n
        BY <1>2, <1>3, <3>1
      <4> QED BY <2>1, <3>1, <4>1, Zenon
    <3>2. CASE i # 0
      <4>1. i - 1 \in 0 .. n /\ i - 1 # n /\ (i # n => i \in 0 .. n - 1)
        BY <1>2, <3>2
      <4>2. h[i - 1] = g[i - 1]
        BY <4>1, Zenon
      <4> QED BY <2>1, <3>2, <4>1, <4>2, Zenon
    <3> QED BY <3>1, <3>2
  <2>3. h = [i \in 0 .. n |-> h[i]]
    BY Zenon
  <2> HIDE DEF h
  <2> QED BY <2>2, <2>3, Zenon DEF IsJoined
<1> QED BY <1>2, <1>6

LEMMA GatheredIsJoined ==
  ASSUME Len(Providers) \in Nat
  PROVE  IsJoined(Gathered, options.outbounds, Providers, offered, Len(Providers))
<1>1. PICK g : IsJoined(g, options.outbounds, Providers, offered, Len(Providers))
  BY JoinedExists
<1> QED BY <1>1, Zenon DEF Gathered, IsJoined

LEMMA GatheredSteps ==
  ASSUME SelectorTypes
  PROVE  /\ Providers \in Seq(Tags)
         /\ Gathered[0] = options.outbounds
         /\ \A n \in Nat : n < Len(Providers) =>
              Gathered[n + 1] = Gathered[n] \o offered[Providers[n + 1]]
<1>1. Providers \in Seq(Tags) /\ Len(Providers) \in Nat
  BY ConfigsAssumption DEF SelectorTypes, Providers
<1> QED BY <1>1, GatheredIsJoined DEF IsJoined

LEMMA GatheredFrame ==
  ASSUME UNCHANGED <<options, offered>>
  PROVE  Gathered' = Gathered
BY DEF Gathered, Providers

LEMMA GatheredAnew ==
  ASSUME SelectorTypes, options' = options
  PROVE  Gathered'[0] = options.outbounds
<1>1. Len(Providers) \in Nat
  BY ConfigsAssumption DEF SelectorTypes, Providers
<1>2. PICK g : IsJoined(g, options.outbounds, Providers, offered', Len(Providers))
  BY <1>1, JoinedExists, Zenon
<1>3. IsJoined(Gathered', options.outbounds, Providers, offered', Len(Providers))
  BY <1>2, ZenonT(120) DEF Gathered, IsJoined, Providers
<1> QED BY <1>1, <1>3 DEF IsJoined

(* What leaves everything alone but the connections. *)
LEMMA SelectorFrame ==
  ASSUME SelectorInv, UNCHANGED <<options, lists, selected, saved, select, update, overlap>>
  PROVE  SelectorInv'
<1>1. Gathered' = Gathered
  BY GatheredFrame DEF lists
<1>2. SelectorTypes' /\ Configured'
  BY DEF SelectorInv, SelectorTypes, Configured, lists, Providers
<1>3. ListsAgree'
  BY <1>1 DEF SelectorInv, ListsAgree, GatheredSoFar, Fresh, Gathering, Listing, Updating, lists, Providers
<1>4. ChoiceAgrees'
  BY DEF SelectorInv, ChoiceAgrees, Agrees, Unsettled, Storing, Selecting, Updating, Listed, lists
<1> QED BY <1>2, <1>3, <1>4 DEF SelectorInv

(* What leaves the lists and the callbacks alone. *)
LEMMA ListsFrame ==
  ASSUME SelectorInv, UNCHANGED <<options, lists, update>>,
         overlap' \in SUBSET {"select", "update"}, overlap \subseteq overlap'
  PROVE  Configured' /\ ListsAgree'
<1>1. Gathered' = Gathered
  BY GatheredFrame DEF lists
<1>2. Configured'
  BY DEF SelectorInv, Configured, lists, Providers
<1>3. ListsAgree'
  BY <1>1 DEF SelectorInv, ListsAgree, GatheredSoFar, Fresh, Gathering, Listing, Updating, lists, Providers
<1> QED BY <1>2, <1>3

(* A call looks its tag up, when nothing is under way or else counted. *)
LEMMA LookupInv ==
  ASSUME SelectorInv, NEW i \in Selects, NEW t \in Listed, Lookup(i, t), options' = options
  PROVE  SelectorInv'
<1>1. overlap' \in SUBSET {"select", "update"} /\ overlap \subseteq overlap'
  BY DEF Lookup, SelectorInv, SelectorTypes
<1>2. Configured' /\ ListsAgree'
  BY <1>1, ListsFrame DEF Lookup
<1>3. /\ select'[i].pc = "swap" /\ select'[i].tag = t
      /\ \A j \in Selects \ {i} : select'[j] = select[j]
  BY DEF Lookup, SelectorInv, SelectorTypes
<1>4. t \in AllTags
  BY DEF Listed, Range, SelectorInv, SelectorTypes, Lists
<1>5. SelectorTypes'
  BY <1>1, <1>4 DEF Lookup, SelectorInv, SelectorTypes, lists, SelectPlaces
<1>6. ChoiceAgrees'
  <2> SUFFICES ASSUME overlap' = {} PROVE ChoiceAgrees'
    BY DEF ChoiceAgrees
  <2>1. overlap = {} /\ Selecting = {} /\ Updating = {}
    BY DEF Lookup
  <2>2. Updating' = {} /\ Unsettled' = {} /\ Listed' = Listed
    BY <2>1 DEF Lookup, Updating, Unsettled, Listed, lists
  <2>3. Selecting' = {i} /\ Storing' = {}
    BY <1>3, <2>1 DEF Selecting, Storing
  <2>4. Unsettled = {} /\ Storing = {}
    BY <2>1 DEF Unsettled, Updating, Storing, Selecting
  <2>5. Agrees(selected)'
    BY <2>1, <2>2, <2>4 DEF Lookup, SelectorInv, ChoiceAgrees, Agrees
  <2>6. \A p \in Tags : update'[p].pc # "swap"
    BY <2>2 DEF Updating
  <2> QED BY <1>3, <2>2, <2>3, <2>5, <2>6 DEF ChoiceAgrees
<1> QED BY <1>2, <1>5, <1>6 DEF SelectorInv

(* s.selected.Swap, by SelectOutbound. *)
LEMMA SwapInv ==
  ASSUME SelectorInv, NEW i \in Selects, Swap(i), options' = options
  PROVE  SelectorInv'
<1>1. Configured' /\ ListsAgree'
  BY ListsFrame DEF Swap, SelectorInv, SelectorTypes
<1>2. /\ select'[i] = IF selected = select[i].tag THEN NotCalled ELSE [select[i] EXCEPT !.pc = "store"]
      /\ \A j \in Selects \ {i} : select'[j] = select[j]
  BY DEF Swap, SelectorInv, SelectorTypes
<1>3. SelectorTypes'
  BY DEF Swap, SelectorInv, SelectorTypes, lists, SelectPlaces, NotCalled
<1>4. ChoiceAgrees'
  <2> SUFFICES ASSUME overlap' = {} PROVE ChoiceAgrees'
    BY DEF ChoiceAgrees
  <2>1. overlap = {} /\ i \in Selecting /\ selected' = select[i].tag
    BY DEF Swap, Selecting
  <2>2. Selecting = {i} /\ Updating = {} /\ select[i].tag \in Listed
    BY <2>1 DEF SelectorInv, ChoiceAgrees
  <2>3. Updating' = {} /\ Unsettled' = {} /\ Listed' = Listed /\ saved' = saved
    BY <2>2 DEF Swap, Updating, Unsettled, Listed, lists
  <2>4. \A p \in Tags : update'[p].pc # "swap"
    BY <2>3 DEF Updating
  <2>5. CASE selected = select[i].tag
    <3>1. Selecting' = {} /\ Storing' = {}
      BY <1>2, <2>2, <2>5 DEF Selecting, Storing, NotCalled
    <3>2. Unsettled = {} /\ Storing = {}
      BY <2>2 DEF Unsettled, Updating, Storing, Selecting, Swap
    <3>3. Agrees(selected)'
      BY <2>1, <2>3, <2>5, <3>2 DEF SelectorInv, ChoiceAgrees, Agrees
    <3> QED BY <2>3, <2>4, <3>1, <3>3 DEF ChoiceAgrees
  <2>6. CASE selected # select[i].tag
    <3>1. select'[i].pc = "store" /\ select'[i].tag = select[i].tag
      BY <1>2, <2>6 DEF SelectorInv, SelectorTypes
    <3>2. Selecting' = {i} /\ Storing' = {i}
      BY <1>2, <2>2, <3>1, Zenon DEF Selecting, Storing
    <3> QED BY <2>1, <2>2, <2>3, <2>4, <3>1, <3>2 DEF ChoiceAgrees
  <2> QED BY <2>5, <2>6
<1> QED BY <1>1, <1>3, <1>4 DEF SelectorInv

(* cacheFile.StoreSelected. *)
LEMMA StoreInv ==
  ASSUME SelectorInv, NEW i \in Selects, Store(i), options' = options
  PROVE  SelectorInv'
<1>1. Configured' /\ ListsAgree'
  BY ListsFrame DEF Store, SelectorInv, SelectorTypes
<1>2. /\ select'[i] = [pc |-> "interrupt", tag |-> None]
      /\ \A j \in Selects \ {i} : select'[j] = select[j]
  BY DEF Store, SelectorInv, SelectorTypes
<1>3. SelectorTypes'
  BY DEF Store, SelectorInv, SelectorTypes, lists, SelectPlaces
<1>4. ChoiceAgrees'
  <2> SUFFICES ASSUME overlap' = {} PROVE ChoiceAgrees'
    BY DEF ChoiceAgrees
  <2>1. overlap = {} /\ i \in Selecting /\ i \in Storing /\ saved' = select[i].tag
    BY DEF Store, Selecting, Storing
  <2>2. Selecting = {i} /\ Updating = {} /\ select[i].tag \in Listed /\ selected = select[i].tag
    BY <2>1 DEF SelectorInv, ChoiceAgrees
  <2>3. Updating' = {} /\ Listed' = Listed /\ selected' = selected
    BY <2>2 DEF Store, Updating, Listed, lists
  <2>4. \A p \in Tags : update'[p].pc # "swap"
    BY <2>3 DEF Updating
  <2>5. Selecting' = {} /\ Storing' = {}
    BY <1>2, <2>2 DEF Selecting, Storing
  <2> QED BY <2>1, <2>2, <2>3, <2>4, <2>5 DEF ChoiceAgrees, Agrees
<1> QED BY <1>1, <1>3, <1>4 DEF SelectorInv

LEMMA SelectInterruptsInv ==
  ASSUME SelectorInv, NEW i \in Selects, SelectInterrupts(i), options' = options
  PROVE  SelectorInv'
<1>1. Configured' /\ ListsAgree'
  BY ListsFrame DEF SelectInterrupts, SelectorInv, SelectorTypes
<1>2. /\ select[i].pc = "interrupt" /\ select'[i] = NotCalled
      /\ \A j \in Selects \ {i} : select'[j] = select[j]
  BY DEF SelectInterrupts, SelectorInv, SelectorTypes
<1>3. SelectorTypes'
  BY DEF SelectInterrupts, SelectorInv, SelectorTypes, lists, SelectPlaces, NotCalled
<1>4. Selecting' = Selecting /\ Storing' = Storing /\ \A j \in Selecting : select'[j] = select[j]
  BY <1>2 DEF Selecting, Storing, NotCalled
<1>5. ChoiceAgrees'
  BY <1>4 DEF SelectInterrupts, SelectorInv, ChoiceAgrees, Agrees, Unsettled, Updating, Listed, lists,
     Storing, Selecting
<1> QED BY <1>1, <1>3, <1>5 DEF SelectorInv

-----------------------------------------------------------------------------
(* What a callback of p may do with the calls of SelectOutbound: nothing,  *)
(* and none of them is under way if nothing overlaps.                      *)
LEMMA AloneUpdating ==
  ASSUME SelectorInv, NEW p \in Tags, update[p].pc # "idle"
  PROVE  /\ "update" \notin overlap => Updating = {p}
         /\ overlap = {} => Selecting = {} /\ Storing = {}
<1>1. p \in Updating
  BY DEF Updating
<1>2. "update" \notin overlap => Updating = {p}
  BY <1>1 DEF SelectorInv, ListsAgree
<1>3. overlap = {} => Selecting = {}
  BY <1>1 DEF SelectorInv, ChoiceAgrees
<1>4. Storing \subseteq Selecting
  BY DEF Storing, Selecting
<1> QED BY <1>2, <1>3, <1>4

(* While a callback has not swapped, nothing is said of the selection. *)
LEMMA ChoiceOpen ==
  ASSUME SelectorInv, NEW p \in Tags, Selecting' = {}, p \in Unsettled', Updating' = {p},
         update'[p].pc # "swap"
  PROVE  ChoiceAgrees'
<1>1. Storing' = {}
  BY DEF Storing, Selecting
<1>2. \A q \in Tags : update'[q].pc # "swap"
  BY DEF Updating
<1> QED BY <1>1, <1>2 DEF ChoiceAgrees

LEMMA BeginInv ==
  ASSUME SelectorInv, NEW p \in Tags, NEW offer \in Offers[p], Begin(p, offer), options' = options
  PROVE  SelectorInv'
<1>0. offer \in Lists /\ options.outbounds \in Lists /\ Providers \in Seq(Tags) /\ Providers' = Providers
  BY OffersAssumption, ConfigsAssumption DEF SelectorInv, SelectorTypes, Lists, Providers
<1>1. /\ update'[p] = [pc |-> "gather", from |-> 0, list |-> options.outbounds, detour |-> None]
      /\ offered'[p] = offer
      /\ \A q \in Tags \ {p} : update'[q] = update[q] /\ offered'[q] = offered[q]
  BY Zenon DEF Begin, Idle, SelectorInv, SelectorTypes
<1>2. PICK k \in 1 .. Len(Providers) : Providers[k] = p
  BY <1>0 DEF Begin, Range
<1>3. Updating' = Updating \union {p} /\ p \in Unsettled'
  BY <1>1 DEF Updating, Unsettled, Begin
<1>4. SelectorTypes'
  <2>1. update' \in [Tags -> [pc : UpdatePlaces, from : Nat, list : Lists, detour : AllTags \union {None}]]
    BY <1>0, Zenon DEF Begin, SelectorInv, SelectorTypes, UpdatePlaces, Idle
  <2>2. overlap' \in SUBSET {"select", "update"}
    BY DEF Begin, SelectorInv, SelectorTypes
  <2> QED BY <1>0, <2>1, <2>2 DEF Begin, SelectorInv, SelectorTypes
<1>5. Configured'
  <2>1. tags' = tags /\ Len(Providers) \in Nat /\ 0 < Len(Providers)
    BY <1>0, <1>2 DEF Begin
  <2>2. /\ update'[p].list = options.outbounds /\ update'[p].from = 0
        /\ \A q \in Tags \ {p} : update'[q] = update[q]
    BY <1>1
  <2> QED BY <1>0, <2>1, <2>2 DEF SelectorInv, Configured
<1>6. ListsAgree'
  <2> SUFFICES ASSUME "update" \notin overlap' PROVE ListsAgree'
    BY DEF ListsAgree
  <2>1. Updating = {} /\ "update" \notin overlap
    BY DEF Begin
  <2>2. Gathering = {} /\ \A q \in Tags \ {p} : update'[q].pc = "idle"
    BY <1>1, <2>1 DEF Gathering, Updating
  <2>3. \A q \in Tags : Fresh(q)
    BY <2>1, <2>2 DEF SelectorInv, ListsAgree
  <2>4. \A q \in Tags \ {p} : Fresh(q)'
    BY <1>1, <2>3 DEF Fresh, Begin
  <2>5. Gathered'[0] = options.outbounds
    BY GatheredAnew DEF SelectorInv
  <2>6. GatheredSoFar(p)'
    BY <1>0, <1>1, <1>2, <2>4, <2>5 DEF GatheredSoFar
  <2>7. \A q \in Tags : GatheredSoFar(q)'
    BY <2>2, <2>6 DEF GatheredSoFar
  <2>8. p \in Gathering' /\ p \in Listing'
    BY <1>1 DEF Gathering, Listing
  <2> QED BY <1>3, <2>1, <2>7, <2>8 DEF ListsAgree
<1>7. ChoiceAgrees'
  <2> SUFFICES ASSUME overlap' = {} PROVE ChoiceAgrees'
    BY DEF ChoiceAgrees
  <2>1. Updating = {} /\ Selecting = {}
    BY Zenon DEF Begin
  <2>2. Selecting' = {} /\ Updating' = {p} /\ update'[p].pc # "swap"
    BY <1>1, <1>3, <2>1 DEF Begin, Selecting
  <2> QED BY <1>3, <2>2, ChoiceOpen
<1> QED BY <1>4, <1>5, <1>6, <1>7 DEF SelectorInv

LEMMA RangeOfConcat ==
  ASSUME NEW S, NEW s \in Seq(S), NEW t \in Seq(S)
  PROVE  Range(s) \subseteq Range(s \o t) /\ s \o t \in Seq(S)
<1>1. \A i \in DOMAIN s : i \in DOMAIN (s \o t) /\ (s \o t)[i] = s[i]
  OBVIOUS
<1> QED BY <1>1 DEF Range

LEMMA GatherInv ==
  ASSUME SelectorInv, NEW p \in Tags, Gather(p), options' = options
  PROVE  SelectorInv'
<1>0. /\ Providers \in Seq(Tags) /\ Providers' = Providers
      /\ update[p].pc = "gather" /\ update[p].from \in Nat /\ update[p].from < Len(Providers)
  BY ConfigsAssumption, Zenon DEF Gather, SelectorInv, SelectorTypes, Configured, Providers
<1>a. PICK n \in Nat : n = update[p].from
  BY <1>0
<1>b. PICK q \in Tags : q = Providers[n + 1]
  BY <1>0, <1>a
<1>c. PICK got \in Lists : got = IF q # p /\ cache[q] # << >> THEN cache[q] ELSE offered[q]
  BY DEF SelectorInv, SelectorTypes
<1>1. n < Len(Providers) /\ Len(Providers) \in Nat
  BY <1>0, <1>a
<1>2. update[p].list \in Lists
  BY Zenon DEF SelectorInv, SelectorTypes
<1>d. /\ cache' = [cache EXCEPT ![q] = got]
      /\ update' = [update EXCEPT ![p].list = @ \o got, ![p].from = @ + 1,
                                  ![p].pc = IF n + 1 = Len(Providers) THEN "replace" ELSE @]
  BY <1>a, <1>b, <1>c, ZenonT(120) DEF Gather
<1>3. /\ cache'[q] = got /\ \A r \in Tags \ {q} : cache'[r] = cache[r]
      /\ offered' = offered /\ tags' = tags
  BY <1>d, ZenonT(120) DEF Gather, SelectorInv, SelectorTypes
<1>4. /\ update'[p].list = update[p].list \o got
      /\ update'[p].from = n + 1
      /\ update'[p].pc = IF n + 1 = Len(Providers) THEN "replace" ELSE "gather"
      /\ \A r \in Tags \ {p} : update'[r] = update[r]
  BY <1>0, <1>a, <1>d, ZenonT(120) DEF SelectorInv, SelectorTypes
<1>5. update'[p].list \in Lists /\ Range(update[p].list) \subseteq Range(update'[p].list)
  BY <1>2, <1>4, RangeOfConcat DEF Lists
<1>6. SelectorTypes'
  <2>1. update' \in [Tags -> [pc : UpdatePlaces, from : Nat, list : Lists, detour : AllTags \union {None}]]
    <3>1. update[p].list \o got \in Lists /\ n + 1 \in Nat
      BY <1>1, <1>4, <1>5
    <3>2. update' = [update EXCEPT ![p] = [pc |-> IF n + 1 = Len(Providers) THEN "replace" ELSE "gather",
                     from |-> n + 1, list |-> update[p].list \o got, detour |-> update[p].detour]]
      BY <1>0, <1>a, <1>d DEF SelectorInv, SelectorTypes
    <3> QED BY <3>1, <3>2 DEF SelectorInv, SelectorTypes, UpdatePlaces
  <2>2. cache' \in [Tags -> Lists]
    BY <1>d DEF SelectorInv, SelectorTypes
  <2> QED BY <2>1, <2>2, ZenonT(120) DEF Gather, SelectorInv, SelectorTypes
<1>7. Configured'
  <2>1. Range(options.outbounds) \subseteq Range(update[p].list)
    BY <1>0, Zenon DEF SelectorInv, Configured
  <2>2. /\ Range(options'.outbounds) \subseteq Range(update'[p].list)
        /\ Range(options'.outbounds) \subseteq Range(tags')
    BY <1>3, <1>5, <2>1, Zenon DEF SelectorInv, Configured
  <2>3. update'[p].pc = "gather" => update'[p].from < Len(Providers')
    BY <1>0, <1>1, <1>4
  <2> QED BY <1>0, <1>4, <2>2, <2>3, Zenon DEF SelectorInv, Configured
<1>8. ListsAgree'
  <2> SUFFICES ASSUME "update" \notin overlap' PROVE ListsAgree'
    BY Zenon DEF ListsAgree
  <2>1. "update" \notin overlap /\ Updating = {p}
    BY <1>0, AloneUpdating, Zenon DEF Gather
  <2>a. GatheredSoFar(p)
    BY <2>1 DEF SelectorInv, ListsAgree
  <2>2. /\ \A r \in Tags \ {p} : Fresh(r)
        /\ update[p].list = Gathered[n]
        /\ \E k \in 1 .. Len(Providers) : Providers[k] = p /\ (k <= n => Fresh(p))
    BY <1>0, <1>a, <2>a DEF GatheredSoFar
  <2>3. got = offered[q]
    BY <1>c, <2>2 DEF Fresh
  <2>4. Fresh(q)' /\ \A r \in Tags : Fresh(r) => Fresh(r)'
    BY <1>3, <2>3 DEF Fresh
  <2>5. Gathered' = Gathered
    BY <1>3, GatheredFrame, Zenon
  <2>6. update'[p].list = Gathered'[n + 1]
    BY <1>1, <1>b, <1>4, <2>2, <2>3, <2>5, GatheredSteps, Zenon DEF SelectorInv
  <2>7. PICK k \in 1 .. Len(Providers) : Providers[k] = p /\ (k <= n => Fresh(p))
    BY <2>2
  <2>8. k <= n + 1 => Fresh(p)'
    <3>1. CASE k <= n
      BY <2>4, <2>7, <3>1
    <3>2. CASE k = n + 1
      BY <1>b, <2>4, <2>7, <3>2, Zenon
    <3> QED BY <1>1, <3>1, <3>2
  <2>9. \A r \in Tags \ {p} : Fresh(r)' /\ update'[r].pc = "idle"
    BY <1>4, <2>1, <2>2, <2>4 DEF Updating
  <2>10. GatheredSoFar(p)'
    BY <1>0, <1>1, <1>4, <2>6, <2>7, <2>8, <2>9, Zenon DEF GatheredSoFar
  <2>11. \A r \in Tags : GatheredSoFar(r)'
    BY <2>9, <2>10, Zenon DEF GatheredSoFar
  <2>12. Updating' = {p} /\ p \in Listing'
    BY <1>4, <2>9 DEF Updating, Listing
  <2>13. Gathering' = {} => Fresh(p)'
    BY <1>1, <1>4, <2>7, <2>8 DEF Gathering
  <2> QED BY <2>9, <2>11, <2>12, <2>13 DEF ListsAgree
<1>9. ChoiceAgrees'
  <2> SUFFICES ASSUME overlap' = {} PROVE ChoiceAgrees'
    BY Zenon DEF ChoiceAgrees
  <2>1. overlap = {} /\ Updating = {p} /\ Selecting = {}
    BY <1>0, AloneUpdating, ZenonT(120) DEF Gather
  <2>2. update'[p].pc \in {"gather", "replace"} /\ \A r \in Tags \ {p} : update'[r].pc = "idle"
    BY <1>4, <2>1, Zenon DEF Updating
  <2>3. Selecting' = {} /\ Updating' = {p} /\ p \in Unsettled' /\ update'[p].pc # "swap"
    BY <2>1, <2>2, Zenon DEF Gather, Selecting, Updating, Unsettled
  <2> QED BY <2>3, ChoiceOpen
<1> QED BY <1>6, <1>7, <1>8, <1>9 DEF SelectorInv

LEMMA OrCompatibleList ==
  ASSUME NEW ts \in Lists
  PROVE  OrCompatible(ts) \in Lists \ {<< >>} /\ Range(ts) \subseteq Range(OrCompatible(ts))
<1>1. Compatible \in AllTags
  BY Zenon DEF AllTags
<1>2. CASE ts = << >>
  <2>1. Range(ts) = {} /\ <<Compatible>> \in Lists \ {<< >>}
    BY <1>1, <1>2 DEF Range, Lists
  <2> QED BY <1>2, <2>1 DEF OrCompatible
<1> QED BY <1>2 DEF OrCompatible

LEMMA ReplaceInv ==
  ASSUME SelectorInv, NEW p \in Tags, Replace(p), options' = options
  PROVE  SelectorInv'
<1>1. /\ update[p].pc = "replace" /\ Providers' = Providers /\ Gathered' = Gathered
      /\ cache' = cache /\ offered' = offered /\ update[p].list \in Lists
  BY GatheredFrame DEF Replace, Providers, SelectorInv, SelectorTypes
<1>2. tags' \in Lists \ {<< >>} /\ Range(update[p].list) \subseteq Range(tags')
  BY <1>1, OrCompatibleList DEF Replace
<1>3. update'[p].pc = "select" /\ \A r \in Tags \ {p} : update'[r] = update[r]
  BY DEF Replace, SelectorInv, SelectorTypes, Idle
<1>4. SelectorTypes'
  <2>1. update' \in [Tags -> [pc : UpdatePlaces, from : Nat, list : Lists, detour : AllTags \union {None}]]
    <3>1. << >> \in Lists /\ "select" \in UpdatePlaces
      BY DEF Lists, UpdatePlaces
    <3>2. update' = [update EXCEPT ![p] = [pc |-> "select", from |-> 0, list |-> << >>, detour |-> None]]
      <4>1. [Idle EXCEPT !.pc = "select"] = [pc |-> "select", from |-> 0, list |-> << >>, detour |-> None]
        BY DEF Idle
      <4> QED BY <4>1, Zenon DEF Replace
    <3> QED BY <3>1, <3>2 DEF SelectorInv, SelectorTypes
  <2> QED BY <1>2, <2>1 DEF Replace, SelectorInv, SelectorTypes
<1>5. Configured'
  BY <1>1, <1>2, <1>3, Zenon DEF SelectorInv, Configured
<1>6. ListsAgree'
  <2> SUFFICES ASSUME "update" \notin overlap' PROVE ListsAgree'
    BY DEF ListsAgree
  <2>1. "update" \notin overlap /\ Updating = {p}
    BY <1>1, AloneUpdating DEF Replace
  <2>2. \A r \in Tags \ {p} : update'[r].pc = "idle" /\ update[r].pc = "idle"
    BY <1>3, <2>1 DEF Updating
  <2>3. Updating' = {p} /\ Gathering = {} /\ Listing' = {}
    BY <1>1, <1>3, <2>2 DEF Updating, Gathering, Listing
  <2>4. \A r \in Tags : Fresh(r) /\ Fresh(r)'
    BY <1>1, <2>1, <2>3, Zenon DEF SelectorInv, ListsAgree, Fresh
  <2>5. \A r \in Tags : GatheredSoFar(r)'
    BY <1>3, <2>2 DEF GatheredSoFar
  <2>6. tags' = OrCompatible(Gathered'[Len(Providers')])
    BY <1>1, <2>1 DEF Replace, SelectorInv, ListsAgree, GatheredSoFar
  <2> QED BY <2>3, <2>4, <2>5, <2>6, Zenon DEF ListsAgree, OrCompatible
<1>7. ChoiceAgrees'
  <2> SUFFICES ASSUME overlap' = {} PROVE ChoiceAgrees'
    BY DEF ChoiceAgrees
  <2>1. overlap = {} /\ Updating = {p} /\ Selecting = {}
    BY <1>1, AloneUpdating DEF Replace
  <2>2. Selecting' = {} /\ Updating' = {p} /\ p \in Unsettled' /\ update'[p].pc # "swap"
    BY <1>3, <2>1 DEF Replace, Selecting, Updating, Unsettled
  <2> QED BY <2>2, ChoiceOpen
<1> QED BY <1>4, <1>5, <1>6, <1>7 DEF SelectorInv

(* outboundSelect finds an outbound that agrees: the default is configured, *)
(* and the list is not empty.                                              *)
LEMMA ChosenAgrees ==
  ASSUME SelectorTypes, Configured
  PROVE  Agrees(outboundSelect(tags))
<1>1. options.default \in Range(options.outbounds) \union {None}
  BY ConfigsAssumption DEF SelectorTypes
<1>2. Head(tags) \in Range(tags)
  <2>1. tags \in Seq(AllTags) /\ tags # << >>
    BY DEF SelectorTypes, Lists
  <2>2. 1 \in DOMAIN tags /\ Head(tags) = tags[1]
    BY <2>1
  <2> QED BY <2>2 DEF Range
<1> QED BY <1>1, <1>2 DEF Agrees, outboundSelect, Configured, Listed

LEMMA AgreedTag ==
  ASSUME SelectorTypes, NEW o, Agrees(o)
  PROVE  o \in AllTags
BY DEF SelectorTypes, Agrees, Listed, Range, Lists

(* A callback that is through with the lists. *)
LEMMA ListsDone ==
  ASSUME SelectorInv, NEW p \in Tags, UNCHANGED <<options, lists, overlap>>,
         update[p].pc \in {"select", "swap", "interrupt"},
         update'[p].pc \notin {"gather", "replace"},
         \A r \in Tags \ {p} : update'[r] = update[r]
  PROVE  Configured' /\ ListsAgree'
<1>1. /\ Gathered' = Gathered /\ Providers' = Providers /\ tags' = tags
      /\ cache' = cache /\ offered' = offered
  BY GatheredFrame DEF lists, Providers
<1>2. Configured'
  BY <1>1, Zenon DEF SelectorInv, Configured
<1>3. ListsAgree'
  <2> SUFFICES ASSUME "update" \notin overlap' PROVE ListsAgree'
    BY DEF ListsAgree
  <2>1. "update" \notin overlap /\ Updating = {p}
    BY AloneUpdating
  <2>2. \A r \in Tags \ {p} : update'[r].pc = "idle" /\ update[r].pc = "idle"
    BY <2>1 DEF Updating
  <2>3. /\ \A r, t \in Updating' : r = t
        /\ Gathering = {} /\ Listing = {} /\ Listing' = {}
    BY <2>2 DEF Updating, Gathering, Listing
  <2>4. \A r \in Tags : Fresh(r)'
    BY <1>1, <2>1, <2>3, Zenon DEF SelectorInv, ListsAgree, Fresh
  <2>5. \A r \in Tags : GatheredSoFar(r)'
    BY <2>2 DEF GatheredSoFar
  <2>6. tags' = OrCompatible(Gathered'[Len(Providers')])
    BY <1>1, <2>1, <2>3 DEF SelectorInv, ListsAgree
  <2> QED BY <2>3, <2>4, <2>5, <2>6 DEF ListsAgree, OrCompatible
<1> QED BY <1>2, <1>3

LEMMA SelectAgainInv ==
  ASSUME SelectorInv, NEW p \in Tags, SelectAgain(p), options' = options
  PROVE  SelectorInv'
<1>1. PICK o \in AllTags : o = outboundSelect(tags) /\ Agrees(o)
  BY ChosenAgrees, AgreedTag DEF SelectorInv
<1>2. PICK r : r = [Idle EXCEPT !.pc = "swap", !.detour = o]
  OBVIOUS
<1>3. update' = [update EXCEPT ![p] = r]
  BY <1>1, <1>2, Zenon DEF SelectAgain
<1>r. /\ r \in [pc : UpdatePlaces, from : Nat, list : Lists, detour : AllTags \union {None}]
      /\ r.pc = "swap" /\ r.detour = o
  <2>1. << >> \in Lists
    BY DEF Lists
  <2> QED BY <1>2, <2>1, Zenon DEF Idle, UpdatePlaces
<1>4. /\ update[p].pc = "select" /\ update'[p].pc = "swap" /\ update'[p].detour = o
      /\ \A t \in Tags \ {p} : update'[t] = update[t]
  BY <1>3, <1>r, Zenon DEF SelectAgain, SelectorInv, SelectorTypes
<1>5. Configured' /\ ListsAgree'
  BY <1>4, ListsDone DEF SelectAgain
<1>6. SelectorTypes'
  BY <1>3, <1>r, ZenonT(120) DEF SelectAgain, SelectorInv, SelectorTypes, lists
<1>7. ChoiceAgrees'
  <2> SUFFICES ASSUME overlap' = {} PROVE ChoiceAgrees'
    BY DEF ChoiceAgrees
  <2>1. overlap = {} /\ Updating = {p} /\ Selecting = {} /\ Storing = {}
    BY <1>4, AloneUpdating, Zenon DEF SelectAgain
  <2>2. \A t \in Tags \ {p} : update'[t].pc = "idle"
    BY <1>4, <2>1 DEF Updating
  <2>3. Selecting' = {} /\ Storing' = {} /\ p \in Unsettled' /\ Agrees(o)'
    BY <1>1, <1>4, <2>1, Zenon DEF SelectAgain, Selecting, Storing, Unsettled, Agrees, Listed, lists
  <2>4. \A t \in Tags : update'[t].pc = "swap" => Agrees(update[t].detour)'
    BY <1>4, <2>2, <2>3 DEF Agrees
  <2> QED BY <2>3, <2>4 DEF ChoiceAgrees
<1> QED BY <1>5, <1>6, <1>7 DEF SelectorInv

(* The callback has moved the selection, or found that it stays. *)
LEMMA SettledInv ==
  ASSUME SelectorInv, NEW p \in Tags, NEW pc \in {"idle", "interrupt"}, update[p].pc \in {"swap", "interrupt"},
         update' = [update EXCEPT ![p] = [pc |-> pc, from |-> 0, list |-> << >>, detour |-> None]],
         UNCHANGED <<options, lists, overlap, select, saved>>, overlap = {} => Agrees(selected')
  PROVE  SelectorInv'
<1>1. update'[p].pc = pc /\ \A r \in Tags \ {p} : update'[r] = update[r]
  BY DEF SelectorInv, SelectorTypes
<1>2. Configured' /\ ListsAgree'
  BY <1>1, ListsDone, Zenon
<1>3. SelectorTypes'
  <2>1. << >> \in Lists /\ pc \in UpdatePlaces
    BY DEF Lists, UpdatePlaces
  <2>2. update' \in [Tags -> [pc : UpdatePlaces, from : Nat, list : Lists, detour : AllTags \union {None}]]
    BY <2>1 DEF SelectorInv, SelectorTypes
  <2> QED BY <2>2 DEF SelectorInv, SelectorTypes, lists
<1>4. ChoiceAgrees'
  <2> SUFFICES ASSUME overlap' = {} PROVE ChoiceAgrees'
    BY DEF ChoiceAgrees
  <2>1. overlap = {} /\ Updating = {p} /\ Selecting = {} /\ Storing = {}
    BY AloneUpdating
  <2>2. \A r \in Tags : update'[r].pc # "swap"
    BY <1>1, <2>1, Zenon DEF Updating
  <2>3. Selecting' = {} /\ Storing' = {}
    BY <2>1 DEF Selecting, Storing
  <2>4. Agrees(selected)'
    BY <2>1 DEF Agrees, Listed, lists
  <2> QED BY <2>2, <2>3, <2>4, Zenon DEF ChoiceAgrees
<1> QED BY <1>2, <1>3, <1>4, Zenon DEF SelectorInv

LEMMA SwapAgainInv ==
  ASSUME SelectorInv, NEW p \in Tags, SwapAgain(p), options' = options
  PROVE  SelectorInv'
<1>1. PICK pc \in {"idle", "interrupt"} : pc = IF selected = selected' THEN "idle" ELSE "interrupt"
  OBVIOUS
<1>2. [Idle EXCEPT !.pc = pc] = [pc |-> pc, from |-> 0, list |-> << >>, detour |-> None]
  BY DEF Idle
<1>3. update' = [update EXCEPT ![p] = [pc |-> pc, from |-> 0, list |-> << >>, detour |-> None]]
  BY <1>1, <1>2, Zenon DEF SwapAgain
<1>4. overlap = {} => Agrees(selected')
  BY DEF SwapAgain, SelectorInv, ChoiceAgrees
<1> QED BY <1>3, <1>4, SettledInv, Zenon DEF SwapAgain

LEMMA UpdateInterruptsInv ==
  ASSUME SelectorInv, NEW p \in Tags, UpdateInterrupts(p), options' = options
  PROVE  SelectorInv'
<1>1. update' = [update EXCEPT ![p] = [pc |-> "idle", from |-> 0, list |-> << >>, detour |-> None]]
  BY ZenonT(120) DEF UpdateInterrupts, Idle
<1>2. overlap = {} => Agrees(selected')
  <2> SUFFICES ASSUME overlap = {} PROVE Agrees(selected')
    OBVIOUS
  <2>1. Updating = {p} /\ Storing = {} /\ update[p].pc = "interrupt"
    BY AloneUpdating DEF UpdateInterrupts
  <2>2. Unsettled = {}
    BY <2>1 DEF Unsettled, Updating
  <2> QED BY <2>1, <2>2, Zenon DEF SelectorInv, ChoiceAgrees, UpdateInterrupts
<1> QED BY <1>1, <1>2, SettledInv, Zenon DEF UpdateInterrupts

(* Before any callback nothing is offered, and the list is that of the     *)
(* configuration.                                                          *)
LEMMA SelectorInit == Init => SelectorInv
<1> SUFFICES ASSUME Init PROVE SelectorInv
  OBVIOUS
<1>1. options.outbounds \in Lists /\ << >> \in Lists /\ Providers \in Seq(Tags)
  <2>1. options \in Configs
    BY Zenon DEF Init
  <2>2. << >> \in Lists
    BY ONLY TRUE DEF Lists
  <2> QED BY <2>1, <2>2, ConfigsAssumption, Zenon DEF Lists, Providers
<1>2. tags \in Lists \ {<< >>} /\ Range(options.outbounds) \subseteq Range(tags)
  <2>1. tags = OrCompatible(options.outbounds)
    BY Zenon DEF Init
  <2> QED BY <1>1, <2>1, OrCompatibleList, Zenon
<1>3. SelectorTypes
  <2>1. NotCalled \in [pc : SelectPlaces, tag : AllTags \union {None}]
    BY Zenon DEF NotCalled, SelectPlaces
  <2>2. Idle \in [pc : UpdatePlaces, from : Nat, list : Lists, detour : AllTags \union {None}]
    BY <1>1, Zenon DEF Idle, UpdatePlaces
  <2> QED BY <1>1, <1>2, <2>1, <2>2, Zenon DEF Init, SelectorTypes
<1>4. \A p \in Tags : update[p].pc = "idle" /\ Fresh(p)
  BY DEF Init, Idle, Fresh
<1>5. Configured
  BY <1>2, <1>4, Zenon DEF Configured
<1>6. Gathered[Len(Providers)] = options.outbounds
  <2> DEFINE T == {n \in Nat : n <= Len(Providers) /\ Gathered[n] # options.outbounds}
  <2>1. /\ Gathered[0] = options.outbounds
        /\ \A n \in Nat : n < Len(Providers) => Gathered[n + 1] = Gathered[n] \o << >>
    <3>1. \A n \in Nat : n < Len(Providers) => offered[Providers[n + 1]] = << >>
      <4>1. \A n \in Nat : n < Len(Providers) => Providers[n + 1] \in Tags
        BY ONLY <1>1
      <4>2. \A p \in Tags : offered[p] = << >>
        BY Zenon DEF Init
      <4> QED BY <4>1, <4>2, Zenon
    <3> QED BY <1>3, <3>1, GatheredSteps, ZenonT(120)
  <2>2. ASSUME NEW n \in T PROVE \E m \in T : m < n
    <3>1. n \in Nat /\ n <= Len(Providers) /\ Gathered[n] # options.outbounds
      BY Zenon
    <3>2. n # 0
      BY <2>1, <3>1, Zenon
    <3>3. PICK k \in Nat : k = Len(Providers)
      BY ONLY <1>1
    <3>4. PICK m \in Nat : n = m + 1 /\ m < k
      <4>1. n - 1 \in Nat /\ n = (n - 1) + 1 /\ n - 1 < k
        BY <3>1, <3>2, <3>3
      <4> QED BY <4>1, Zenon
    <3>5. Gathered[n] = Gathered[m] \o << >>
      BY <2>1, <3>3, <3>4, Zenon
    <3>6. PICK o : o = options.outbounds /\ o \in Seq(AllTags)
      BY <1>1, Zenon DEF Lists
    <3>7. o \o << >> = o
      BY <3>6
    <3>8. Gathered[m] # options.outbounds
      BY <3>1, <3>5, <3>6, <3>7, Zenon
    <3>9. m <= k /\ m < n
      BY <3>4
    <3> QED BY <3>3, <3>8, <3>9, Zenon
  <2>3. T \subseteq Nat
    OBVIOUS
  <2>4. T = {}
    <3> HIDE DEF T
    <3> SUFFICES ASSUME T # {} PROVE FALSE
      OBVIOUS
    <3>1. PICK n \in T : \A m \in T : n <= m
      BY <2>3, LeastNat, Zenon
    <3>2. PICK m \in T : m < n
      BY <2>2
    <3>3. m \in Nat /\ n \in Nat /\ n <= m
      BY <2>3, <3>1
    <3> QED BY <3>2, <3>3
  <2>5. Len(Providers) \in Nat
    BY <1>1
  <2> QED BY <2>4, <2>5
<1>7. ListsAgree
  BY <1>4, <1>6, Zenon DEF Init, ListsAgree, GatheredSoFar, Updating
<1>8. ChoiceAgrees
  <2>1. Updating = {} /\ Selecting = {} /\ Storing = {}
    BY <1>4 DEF Init, Updating, Selecting, Storing, NotCalled
  <2>2. Agrees(selected)
    BY <1>3, <1>5, ChosenAgrees DEF Init
  <2> QED BY <1>4, <2>1, <2>2 DEF ChoiceAgrees
<1> QED BY <1>3, <1>5, <1>7, <1>8 DEF SelectorInv

LEMMA SelectorNext ==
  ASSUME SelectorInv, [Next]_vars
  PROVE  SelectorInv'
<1>1. CASE UNCHANGED vars
  BY <1>1, SelectorFrame, Zenon DEF vars
<1>2. CASE Next
  <2>0. options' = options
    BY <1>2 DEF Next
  <2>1. ASSUME NEW i \in Selects, NEW t \in Listed, Lookup(i, t) PROVE SelectorInv'
    BY <2>0, <2>1, LookupInv
  <2>2. ASSUME NEW i \in Selects, SelectOutbound(i) PROVE SelectorInv'
    <3>1. ASSUME NEW d \in Dials, CloseOne(i, d) PROVE SelectorInv'
      BY <2>0, <3>1, SelectorFrame, Zenon DEF CloseOne
    <3> QED BY <2>0, <2>2, <3>1, SwapInv, StoreInv, SelectInterruptsInv DEF SelectOutbound
  <2>3. ASSUME NEW p \in Tags, NEW offer \in Offers[p], Begin(p, offer) PROVE SelectorInv'
    BY <2>0, <2>3, BeginInv
  <2>4. ASSUME NEW p \in Tags, onProviderUpdated(p) PROVE SelectorInv'
    <3>1. ASSUME NEW d \in Dials, CloseOne(p, d) PROVE SelectorInv'
      BY <2>0, <3>1, SelectorFrame DEF CloseOne
    <3> QED BY <2>0, <2>4, <3>1, GatherInv, ReplaceInv, SelectAgainInv, SwapAgainInv, UpdateInterruptsInv
            DEF onProviderUpdated
  <2>5. ASSUME NEW d \in Dials, NEW x \in BOOLEAN, Load(d, x) \/ DialFails(d) \/ NewConn(d) \/ CloseConn(d)
        PROVE  SelectorInv'
    BY <2>0, <2>5, SelectorFrame DEF Load, DialFails, NewConn, CloseConn
  <2> QED BY <1>2, <2>1, <2>2, <2>3, <2>4, <2>5, ZenonT(120) DEF Next
<1> QED BY <1>1, <1>2

(* Callbacks of providers that do not overlap leave the complete list,     *)
(* however many providers there are and whatever they offer: what          *)
(* outboundsCache has of the others is what they offer.                    *)
THEOREM ListStaysComplete == Spec => []ListComplete
<1>1. SelectorInv => ListComplete
  <2> SUFFICES ASSUME SelectorInv, Updating = {}, "update" \notin overlap
               PROVE  tags = OrCompatible(Gathered[Len(Providers)])
    BY DEF ListComplete
  <2>1. Listing = {}
    BY Zenon DEF Listing, Updating
  <2> QED BY <2>1 DEF SelectorInv, ListsAgree
<1> QED BY SelectorInit, SelectorNext, <1>1, PTL DEF Spec

(* Calls of SelectOutbound and callbacks that do not overlap leave the     *)
(* selector on an outbound it offers, and on the saved one if it offers    *)
(* that.                                                                   *)
THEOREM SelectionStaysAgreed == Spec => []SelectionAgrees
<1>1. SelectorInv => SelectionAgrees
  <2> SUFFICES ASSUME SelectorInv, Updating = {}, Selecting = {}, overlap = {}
               PROVE  Agrees(selected)
    BY Zenon DEF SelectionAgrees, Agrees
  <2>1. Unsettled = {} /\ Storing = {}
    BY DEF Unsettled, Updating, Storing, Selecting
  <2> QED BY <2>1 DEF SelectorInv, ChoiceAgrees
<1> QED BY SelectorInit, SelectorNext, <1>1, PTL DEF Spec

-----------------------------------------------------------------------------
(* The urltest group. *)
Places == {"start", "checking", "wait", "stop", "done"}

LifeOK ==
  /\ loops \in [Tickers \union {PostStart} -> Places]
  /\ ticker \in Tickers \union {Nil}

CheckerWaits == checking \in Tickers => loops[checking] = "checking"

TestInv == LifeOK /\ CheckerWaits /\ TickerServed

(* PostStart leaves a group without a ticker and without its goroutine. *)
LEMMA InitTestInv == GroupInit => TestInv
BY TickersAssumption DEF GroupInit, TestInv, LifeOK, CheckerWaits, TickerServed, Running, Places,
   PostStart

(* What a step that leaves goroutine and ticker alone has to respect. *)
LEMMA SameLife ==
  ASSUME TestInv, UNCHANGED <<loops, ticker>>, closing' = closing,
         checking' \in Tickers => checking' = checking
  PROVE  TestInv'
BY DEF TestInv, LifeOK, CheckerWaits, TickerServed, Running

(* A goroutine that has a place and gets another one, which is not the end. *)
LEMMA Moves ==
  ASSUME TestInv, NEW l \in Tickers \union {PostStart}, NEW pc \in Places,
         l \in Tickers => loops[l] # "done" /\ pc # "done",
         loops' = [loops EXCEPT ![l] = pc], UNCHANGED <<ticker, closing>>,
         checking' \in Tickers => loops'[checking'] = "checking"
  PROVE  TestInv'
<1>1. LifeOK' /\ CheckerWaits'
  BY DEF TestInv, LifeOK, CheckerWaits
<1>2. Running' = Running
  BY DEF TestInv, LifeOK, Running
<1> QED
  BY <1>1, <1>2 DEF TestInv, TickerServed

(* Touch: a new ticker and goroutine only when there is none. *)
LEMMA DialTestInv == ASSUME TestInv, NEW d \in Dialers, Dial(d) PROVE TestInv'
<1>1. CASE ticker # Nil /\ UNCHANGED <<ticker, loops>>
  BY <1>1, SameLife DEF Dial, check
<1>2. CASE ticker = Nil /\ NewTicker
  <2> DEFINE free == {t \in Tickers : loops[t] = "done"}
  <2>1. PICK t \in free : ticker' = t /\ loops' = [loops EXCEPT ![t] = "start"]
    BY <1>2, Zenon DEF NewTicker
  <2>2. closing' = closing /\ checking' = checking /\ t # Nil
    BY TickersAssumption DEF Dial, check, TestInv
  <2>3. LifeOK' /\ CheckerWaits'
    BY <2>1, <2>2 DEF TestInv, LifeOK, CheckerWaits, Places
  <2>4. Running' = Running \union {t}
    BY <2>1 DEF TestInv, LifeOK, Running
  <2>5. closing # "closed" => Running = {}
    BY <1>2 DEF TestInv, TickerServed
  <2> QED
    BY <2>1, <2>2, <2>3, <2>4, <2>5 DEF TestInv, TickerServed
<1> QED
  BY <1>1, <1>2, Zenon DEF Dial, Touch

(* A check that is begun by a goroutine, or skipped. *)
LEMMA CheckTestInv ==
  ASSUME TestInv, NEW l \in Tickers \union {PostStart}, loops[l] = "start",
         CheckOutbounds(l), UNCHANGED <<ticker, closing>>
  PROVE  TestInv'
<1>1. CASE BeginCheck(l) /\ loops' = [loops EXCEPT ![l] = "checking"]
  <2>1. checking' = l /\ loops'[l] = "checking" /\ "checking" \in Places
    BY <1>1 DEF BeginCheck, TestInv, LifeOK, Places
  <2> QED
    BY <1>1, <2>1, Moves, Zenon
<1>2. CASE UNCHANGED check /\ checking # "no"
           /\ loops' = [loops EXCEPT ![l] = IF l = PostStart THEN "done" ELSE "wait"]
  <2>1. PICK pc \in Places : loops' = [loops EXCEPT ![l] = pc] /\ (l \in Tickers => pc = "wait")
    BY <1>2, TickersAssumption, Zenon DEF Places, PostStart, TestInv
  <2>2. checking' \in Tickers => loops'[checking'] = "checking"
    BY <1>2, <2>1 DEF check, TestInv, LifeOK, CheckerWaits
  <2> QED
    BY <1>2, <2>1, <2>2, Moves, Zenon
<1> QED
  BY <1>1, <1>2 DEF CheckOutbounds

(* The end of a check lets the goroutine it ran for go on. *)
LEMMA EndTestInv == ASSUME TestInv, End PROVE TestInv'
<1>1. LifeOK' /\ CheckerWaits'
  BY TickersAssumption DEF End, TestInv, LifeOK, CheckerWaits, Places
<1>2. Running' = Running
  BY TickersAssumption, Zenon DEF End, TestInv, LifeOK, CheckerWaits, Running, PostStart
<1> QED
  BY <1>1, <1>2 DEF End, TestInv, TickerServed

(* The goroutine of a ticker: a loop that stops takes its ticker along,    *)
(* and one returns only once g.close is closed.                            *)
LEMMA loopCheckTestInv == ASSUME TestInv, NEW t \in Tickers, loopCheck(t) PROVE TestInv'
<1>1. CASE Stop(t)
  <2>1. LifeOK' /\ CheckerWaits' /\ Running' = Running \ {t} /\ closing' = closing
    BY <1>1, Zenon DEF Stop, TestInv, LifeOK, CheckerWaits, Places, Running, check
  <2>2. closing # "closed" => Running = {t} /\ ticker = t
    BY <1>1, Zenon DEF Stop, TestInv, TickerServed, Running
  <2> QED
    BY <1>1, <2>1, <2>2, ZenonT(120) DEF Stop, TestInv, TickerServed
<1>2. CASE Return(t)
  BY <1>2, Zenon DEF Return, TestInv, LifeOK, CheckerWaits, TickerServed, Places, check
<1>3. CASE TickIdle(t)
  <2>1. checking' \in Tickers => loops'[checking'] = "checking"
    BY <1>3 DEF TickIdle, check, TestInv, LifeOK, CheckerWaits
  <2>2. loops[t] # "done" /\ "stop" \in Places /\ loops' = [loops EXCEPT ![t] = "stop"]
    BY <1>3 DEF TickIdle, Places
  <2> QED
    BY <1>3, <2>1, <2>2, Moves, Zenon DEF TickIdle
<1>4. CASE Tick(t)
  <2>1. checking' = t /\ loops'[t] = "checking"
    BY <1>4 DEF Tick, BeginCheck, TestInv, LifeOK
  <2>2. loops[t] # "done" /\ "checking" \in Places /\ loops' = [loops EXCEPT ![t] = "checking"]
    BY <1>4 DEF Tick, Places
  <2> QED
    BY <1>4, <2>1, <2>2, Moves, Zenon DEF Tick
<1>5. CASE Start(t) /\ CheckOutbounds(t)
  BY <1>5, CheckTestInv, Zenon DEF Start
<1>6. CASE Start(t) /\ loops' = [loops EXCEPT ![t] = "wait"] /\ UNCHANGED check
  <2>1. checking' \in Tickers => loops'[checking'] = "checking"
    BY <1>6 DEF Start, check, TestInv, LifeOK, CheckerWaits
  <2>2. loops[t] # "done" /\ "wait" \in Places
    BY <1>6 DEF Start, Places
  <2> QED
    BY <1>6, <2>1, <2>2, Moves, ZenonT(120) DEF Start
<1> QED
  BY <1>1, <1>2, <1>3, <1>4, <1>5, <1>6, Zenon DEF loopCheck, Start

(* Every step keeps goroutine and ticker together. *)
LEMMA NextTestInv == ASSUME TestInv, [GroupNext]_groupVars PROVE TestInv'
<1>1. CASE UNCHANGED groupVars
  BY <1>1, SameLife, Zenon DEF groupVars, check, life
<1>2. CASE \E o \in All : Change(o) \/ Age(o)
  BY <1>2, SameLife, Zenon DEF Change, Age, check, life
<1>3. CASE Call
  BY <1>3, TickersAssumption, SameLife, Zenon DEF Call, BeginCheck, life, TestInv
<1>4. CASE Results
  BY <1>4, SameLife, Zenon DEF Results, Available, Unavailable, life
<1>5. CASE Cancel \/ PerformUpdateCheck \/ Rest
  BY <1>5, SameLife DEF Cancel, PerformUpdateCheck, Rest, check, life
<1>6. CASE End
  BY <1>6, EndTestInv, Zenon
<1>7. CASE Close
  BY <1>7 DEF Close, check, TestInv, LifeOK, CheckerWaits, TickerServed, Running
<1>8. CASE Start(PostStart)
  BY <1>8, CheckTestInv DEF Start
<1>9. CASE \E t \in Tickers : loopCheck(t)
  BY <1>9, loopCheckTestInv
<1>10. CASE \E d \in Dialers : Dial(d)
  BY <1>10, DialTestInv, Zenon
<1>11. CASE \E d \in Dialers : Dialled(d) \/ DialError(d)
  BY <1>11, SameLife DEF Dialled, DialError, check, life
<1> QED
  BY <1>1, <1>2, <1>3, <1>4, <1>5, <1>6, <1>7, <1>8, <1>9, <1>10, <1>11, Zenon DEF GroupNext

(* Until Close has closed g.close, the current ticker has exactly one      *)
(* goroutine that receives its ticks, and without a ticker there is none.  *)
THEOREM TickerIsServed == GroupSpec => []TickerServed
<1>1. TestInv => TickerServed
  BY DEF TestInv
<1> QED
  BY InitTestInv, NextTestInv, <1>1, PTL DEF GroupSpec

-----------------------------------------------------------------------------
(* The selected outbounds are outbounds of the group, and a delay in the   *)
(* history leaves room for the tolerance.                                  *)
DelaysOK ==
  /\ group \in Groups
  /\ history \in [All -> Nat]
  /\ \A o \in All : history[o] # 0 => history[o] + Tolerance < Width
  /\ selectedOutbound \in [Networks -> All \union {Nil}]

(* The outbound that Select has after n outbounds. *)
Kept(net) == IF Delay(selectedOutbound[net]) # 0 THEN selectedOutbound[net] ELSE Nil

Chosen(min, n, net) ==
  IF Supports(Outbounds[n], net) /\ history[Outbounds[n]] # 0 /\ Better(Delay(min), Outbounds[n])
    THEN Outbounds[n] ELSE min

IsTested(g, net, k) == g = [n \in 0 .. k |-> IF n = 0 THEN Kept(net) ELSE Chosen(g[n - 1], n, net)]

LEMMA TestedExists ==
  ASSUME NEW net, NEW k \in Nat
  PROVE  \E g : IsTested(g, net, k)
<1> DEFINE T == {n \in Nat : ~ \E g : IsTested(g, net, n)}
<1> SUFFICES ASSUME T # {} PROVE FALSE
  OBVIOUS
<1>1. PICK n \in T : \A m \in T : n <= m
  <2> T \subseteq Nat OBVIOUS
  <2> HIDE DEF T
  <2> QED BY LeastNat, Zenon
<1>2. n \in Nat /\ ~ \E g : IsTested(g, net, n)
  OBVIOUS
<1>3. n # 0
  <2>1. IsTested([i \in 0 .. 0 |-> Kept(net)], net, 0)
    BY DEF IsTested
  <2> QED BY <1>2, <2>1
<1>4. n - 1 \in Nat /\ n - 1 \notin T
  <2> HIDE DEF T
  <2> QED BY <1>1, <1>2, <1>3
<1>5. PICK g : IsTested(g, net, n - 1)
  BY <1>4, Zenon
<1> HIDE DEF T
<1> DEFINE h == [i \in 0 .. n |-> IF i = n THEN Chosen(g[n - 1], n, net) ELSE g[i]]
<1>6. IsTested(h, net, n)
  BY <1>2, <1>3, <1>4, <1>5 DEF IsTested
<1> QED BY <1>2, <1>6

LEMMA ModSmall ==
  ASSUME NEW b \in Nat, NEW x \in Nat, x < b
  PROVE  x % b = x
<1>1. x % b \in 0 .. b - 1 /\ x \div b \in Int /\ x = b * (x \div b) + (x % b)
  OBVIOUS
<1>2. \A k \in Int : b * k < b /\ - b < b * k => k = 0
  OBVIOUS
<1>3. b * (x \div b) < b /\ - b < b * (x \div b)
  BY <1>1
<1>4. x \div b = 0
  BY <1>1, <1>2, <1>3, Zenon
<1> QED BY <1>1, <1>4

(* What is chosen has a delay, and if it is not what was selected before,  *)
(* one that is smaller by more than the tolerance.                         *)
Faster(o, net) ==
  /\ o \in All \union {Nil}
  /\ o # Nil => history[o] # 0
  /\ Kept(net) # Nil => o # Nil /\ (o = Kept(net) \/ history[o] + Tolerance < history[Kept(net)])

LEMMA ChosenIsFaster ==
  ASSUME DelaysOK, NEW net \in Networks, NEW min, Faster(min, net), NEW n \in 1 .. Len(Outbounds)
  PROVE  Faster(Chosen(min, n, net), net)
<1>1. Outbounds[n] \in All /\ Nil \notin All
  BY OutboundsAssumption DEF All, DelaysOK
<1>2. Tolerance \in Nat /\ Width \in Nat
  BY WidthAssumption DEF DelaysOK
<1>3. PICK o \in All : o = Outbounds[n]
  BY <1>1
<1>4. CASE Chosen(min, n, net) = min
  BY <1>4, Zenon
<1>5. CASE Chosen(min, n, net) = o /\ history[o] # 0 /\ Better(Delay(min), o)
  <2>1. history[o] \in Nat /\ history[o] + Tolerance < Width
    BY <1>5, Zenon DEF DelaysOK
  <2>2. (history[o] + Tolerance) % Width = history[o] + Tolerance
    BY <1>2, <2>1, ModSmall
  <2>3. Kept(net) # Nil => history[min] > history[o] + Tolerance /\ min \in All
    BY <1>5, <2>2 DEF Better, Delay, Faster
  <2>4. Kept(net) # Nil => Kept(net) \in All
    BY ZenonT(120) DEF Kept, DelaysOK
  <2>5. Kept(net) # Nil => history[o] + Tolerance < history[Kept(net)]
    BY <1>2, <2>1, <2>3, <2>4 DEF Faster, DelaysOK
  <2>6. Chosen(min, n, net) = o /\ o # Nil /\ history[o] # 0
    BY <1>1, <1>5, Zenon
  <2> QED BY <2>5, <2>6, Zenon DEF Faster
<1> QED BY <1>3, <1>4, <1>5, ZenonT(120) DEF Chosen

LEMMA SelectTestedIsFaster ==
  ASSUME DelaysOK, NEW net \in Networks
  PROVE  Faster(SelectTested(net), net)
<1>1. Len(Outbounds) \in Nat
  BY OutboundsAssumption DEF DelaysOK
<1>2. PICK g : IsTested(g, net, Len(Outbounds)) /\ g[Len(Outbounds)] = SelectTested(net)
  <2> DEFINE F(h) == [n \in 0 .. Len(Outbounds) |-> IF n = 0 THEN Kept(net) ELSE Chosen(h[n - 1], n, net)]
  <2>1. PICK w : w = F(w)
    BY <1>1, TestedExists, Zenon DEF IsTested
  <2>2. (CHOOSE f : f = F(f)) = F(CHOOSE f : f = F(f))
    BY <2>1
  <2>3. SelectTested(net) = (CHOOSE f : f = F(f))[Len(Outbounds)]
    BY DEF SelectTested, Kept, Chosen
  <2> QED BY <2>2, <2>3, Zenon DEF IsTested
<1>3. /\ g[0] = Kept(net)
      /\ \A n \in 1 .. Len(Outbounds) : g[n] = Chosen(g[n - 1], n, net)
  BY <1>1, <1>2 DEF IsTested
<1>4. Faster(Kept(net), net)
  BY Zenon DEF Faster, Kept, Delay, DelaysOK
<1> DEFINE T == {n \in Nat : n <= Len(Outbounds) /\ ~ Faster(g[n], net)}
<1>5. ASSUME NEW n \in T PROVE \E m \in T : m < n
  <2>1. n \in Nat /\ n <= Len(Outbounds) /\ ~ Faster(g[n], net) /\ n # 0
    BY <1>3, <1>4, Zenon
  <2>2. n \in 1 .. Len(Outbounds) /\ n - 1 \in Nat /\ n - 1 <= Len(Outbounds) /\ n - 1 < n
    BY <1>1, <2>1
  <2>3. ~ Faster(g[n - 1], net)
    BY <1>3, <2>1, <2>2, ChosenIsFaster
  <2> QED BY <2>2, <2>3, Zenon
<1>6. T = {}
  <2>0. T \subseteq Nat
    OBVIOUS
  <2> HIDE DEF T
  <2> SUFFICES ASSUME T # {} PROVE FALSE
    OBVIOUS
  <2>1. PICK n \in T : \A m \in T : n <= m
    BY <2>0, LeastNat, ZenonT(120)
  <2>2. PICK m \in T : m < n
    BY <1>5
  <2>3. m \in Nat /\ n \in Nat /\ n <= m
    BY <2>0, <2>1
  <2> QED BY <2>2, <2>3
<1> QED BY <1>1, <1>2, <1>6

LEMMA SelectFirstType ==
  ASSUME DelaysOK, NEW net
  PROVE  SelectFirst(net) \in All \union {Nil}
<1> DEFINE able == {n \in DOMAIN Outbounds : Supports(Outbounds[n], net)}
<1>1. able \subseteq Nat
  BY OutboundsAssumption DEF DelaysOK
<1>2. able # {} => (CHOOSE n \in able : \A m \in able : n <= m) \in able
  <2> HIDE DEF able
  <2> QED BY <1>1, LeastNat, ZenonT(120)
<1>3. \A n \in able : Outbounds[n] \in All
  BY DEF All, Range
<1> QED BY <1>2, <1>3 DEF SelectFirst

LEMMA UpdatedType ==
  ASSUME DelaysOK, NEW net \in Networks
  PROVE  Updated(net) \in All \union {Nil}
BY SelectTestedIsFaster, SelectFirstType, ZenonT(120) DEF Updated, Faster, DelaysOK

LEMMA DelaysNext ==
  ASSUME DelaysOK, [GroupNext]_groupVars
  PROVE  DelaysOK'
<1>1. CASE UNCHANGED <<group, history, selectedOutbound>>
  BY <1>1, ZenonT(120) DEF DelaysOK
<1>2. ASSUME performUpdateCheck, UNCHANGED <<group, history>> PROVE DelaysOK'
  BY <1>2, UpdatedType, Zenon DEF performUpdateCheck, DelaysOK
<1>3. ASSUME NEW o, history' = [history EXCEPT ![o] = 0], UNCHANGED <<group, selectedOutbound>> PROVE DelaysOK'
  BY <1>3, ZenonT(120) DEF DelaysOK
<1>4. ASSUME NEW o \in All, NEW t \in group.delays, Available(o, t), group' = group PROVE DelaysOK'
  <2>1. t \in Nat /\ t + Tolerance < Width
    BY WidthAssumption DEF DelaysOK
  <2> QED BY <1>4, <2>1, Zenon DEF Available, DelaysOK
<1>5. CASE UNCHANGED groupVars
  BY <1>1, <1>5, Zenon DEF groupVars
<1>6. CASE GroupNext
  <2>0. group' = group
    BY <1>6 DEF GroupNext
  <2>1. CASE \E o \in All : Change(o) \/ Age(o)
    BY <1>1, <2>0, <2>1, Zenon DEF Change, Age
  <2>2. CASE Call \/ Cancel \/ Rest \/ Close
    BY <1>1, <2>0, <2>2, Zenon DEF Call, Cancel, Rest, Close
  <2>3. CASE Results
    <3>1. ASSUME NEW o \in All, Unavailable(o) PROVE DelaysOK'
      BY <1>3, <2>0, <3>1, ZenonT(120) DEF Unavailable
    <3> QED BY <1>4, <2>0, <2>3, <3>1, Zenon DEF Results
  <2>4. CASE End \/ PerformUpdateCheck
    BY <1>1, <1>2, <2>0, <2>4, Zenon DEF End, PerformUpdateCheck
  <2>5. CASE Start(PostStart) \/ \E t \in Tickers : loopCheck(t)
    BY <1>1, <2>0, <2>5 DEF loopCheck, Start, Tick, TickIdle, Stop, Return
  <2>6. ASSUME NEW d \in Dialers, Dial(d) \/ Dialled(d) PROVE DelaysOK'
    BY <1>1, <2>0, <2>6, ZenonT(120) DEF Dial, Dialled
  <2>7. ASSUME NEW d \in Dialers, DialError(d) PROVE DelaysOK'
    BY <1>3, <2>0, <2>7, Zenon DEF DialError
  <2> QED BY <1>6, <2>1, <2>2, <2>3, <2>4, <2>5, <2>6, <2>7, Zenon DEF GroupNext
<1> QED BY <1>5, <1>6

(* Only performUpdateCheck moves the selection. *)
LEMMA WhoSelects ==
  ASSUME [GroupNext]_groupVars, selectedOutbound' # selectedOutbound
  PROVE  performUpdateCheck
BY Zenon DEF GroupNext, groupVars, Change, Age, Call, Results, Available,
             Unavailable, Cancel, End, PerformUpdateCheck,
       Rest, Close, Start, loopCheck, Tick, TickIdle, Stop, Return,
       Dial, Dialled, DialError

(* An outbound that has a delay is left only for one whose delay is        *)
(* smaller by more than the tolerance, for any outbounds and delays.       *)
THEOREM SelectionDoesNotFlap == GroupSpec => NoFlapping
<1> DEFINE Step == \A net \in Networks :
             /\ selectedOutbound'[net] # selectedOutbound[net]
             /\ selectedOutbound[net] # Nil /\ history[selectedOutbound[net]] # 0
             => history[selectedOutbound'[net]] + Tolerance < history[selectedOutbound[net]]
<1>1. GroupInit => DelaysOK
  <2> SUFFICES ASSUME GroupInit PROVE DelaysOK
    OBVIOUS
  <2>1. /\ group \in Groups
        /\ history = [o \in All |-> 0] /\ selectedOutbound = [net \in Networks |-> Nil]
    BY Zenon DEF GroupInit
  <2>2. history \in [All -> Nat] /\ \A o \in All : history[o] = 0
    BY <2>1
  <2>3. selectedOutbound \in [Networks -> All \union {Nil}]
    BY <2>1
  <2> QED BY <2>1, <2>2, <2>3, Zenon DEF DelaysOK
<1>2. DelaysOK /\ [GroupNext]_groupVars => [Step]_groupVars
  <2> SUFFICES ASSUME DelaysOK, [GroupNext]_groupVars, NEW net \in Networks,
                      selectedOutbound'[net] # selectedOutbound[net],
                      selectedOutbound[net] # Nil, history[selectedOutbound[net]] # 0
               PROVE  history[selectedOutbound'[net]] + Tolerance < history[selectedOutbound[net]]
    BY Zenon
  <2>1. selectedOutbound'[net] = Updated(net)
    BY WhoSelects, Zenon DEF performUpdateCheck
  <2>2. Kept(net) = selectedOutbound[net]
    BY ZenonT(120) DEF Kept, Delay
  <2>3. Updated(net) = SelectTested(net) /\ Faster(SelectTested(net), net)
    BY <2>2, SelectTestedIsFaster, Zenon DEF Updated, Faster
  <2> QED BY <2>1, <2>2, <2>3, Zenon DEF Faster
<1>3. DelaysOK /\ [GroupNext]_groupVars => DelaysOK'
  BY DelaysNext
<1> HIDE DEF Step
<1>4. GroupSpec => [][Step]_groupVars
  BY <1>1, <1>2, <1>3, PTL DEF GroupSpec
<1> QED BY <1>4, ZenonT(120) DEF Step, NoFlapping
=============================================================================
