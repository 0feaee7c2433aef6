---------------------------- MODULE URLTestGroup ----------------------------
(***************************************************************************)
(* The selection of the urltest outbound (protocol/group/urltest.go): a    *)
(* check tests the outbounds concurrently and stores their delays in the   *)
(* history; performUpdateCheck then chooses an outbound for TCP and one    *)
(* for UDP; a dial that fails takes the delay of its outbound away again.  *)
(* Checks come from PostStart, the goroutine of the ticker, the network    *)
(* monitor, the API and the providers; g.checking admits one at a time.    *)
(* The ticker exists while the group is in use: a dial (Touch) makes it    *)
(* and its goroutine, a long pause or Close ends both.  The model begins   *)
(* with PostStart.                                                         *)
(***************************************************************************)
EXTENDS Naturals, Sequences, Functions

CONSTANTS
  Outbounds,   \* g.outbounds, a sequence
  WithUDP,     \* those that support UDP; all support TCP
  Groups,      \* what a group may see: the delays in ms that a test may measure,
               \* how often outbounds stop or start to respond, whether others
               \* call for checks, and whether it is left alone and closed
  Tolerance,   \* g.tolerance
  Width,       \* one more than the largest uint16
  Dialers,       \* the calls of DialContext for TCP
  Tickers,     \* the tickers and their loopCheck goroutines
  Nil

ASSUME WidthAssumption ==
  /\ Tolerance \in Nat /\ Width \in Nat
  /\ \A g \in Groups : \A t \in g.delays : t \in Nat \ {0} /\ t + Tolerance < Width

ASSUME OutboundsAssumption == Nil \notin Range(Outbounds) /\ Outbounds \in Seq(Range(Outbounds))

ASSUME TickersAssumption == Tickers \intersect {Nil, "PostStart", "caller", "no"} = {}

VARIABLES
  group,     \* what this group sees
  alive,     \* the outbounds that respond
  changes,   \* how often that has changed
  history,   \* the delay in the history storage, 0 if there is none
  fresh,     \* the outbounds whose delay is younger than the interval
  selectedOutbound,  \* selectedOutboundTCP and selectedOutboundUDP
  checking,  \* g.checking, and for whom: "no", "caller" or a goroutine
  testing,   \* the outbounds the running check has still to hear of
  cancelled, \* the context of the running check is done
  dials,     \* the outbound of each dial under way
  active,    \* g.lastActive: at most an interval ago ("now"), an idle timeout
             \* ago ("used") or longer ("idle")
  ticker,    \* g.ticker, with its pause callback
  loops,     \* where each loopCheck is, and PostStart's CheckOutbounds
  closing    \* Close: not called, "returned" early, or g.close is "closed"

outbounds == <<alive, changes>>
check == <<checking, testing, cancelled>>
life == <<active, ticker, loops, closing>>
groupVars == <<group, outbounds, history, fresh, selectedOutbound, check, dials, life>>

PostStart == "PostStart"
All == Range(Outbounds)
Networks == {"tcp", "udp"}
Supports(o, net) == net = "tcp" \/ o \in WithUDP

GroupInit ==
  /\ group \in Groups
  /\ alive = All
  /\ changes = 0
  /\ history = [o \in All |-> 0]
  /\ fresh = {}
  /\ selectedOutbound = [net \in Networks |-> Nil]
  /\ checking = "no"
  /\ testing = {}
  /\ cancelled = FALSE
  /\ dials = [d \in Dialers |-> Nil]
  /\ active = "now"
  /\ ticker = Nil
  /\ loops = [l \in Tickers \union {PostStart} |-> IF l = PostStart THEN "start" ELSE "done"]
  /\ closing = "no"

Change(o) ==
  /\ changes < group.changes
  /\ changes' = changes + 1
  /\ alive' = IF o \in alive THEN alive \ {o} ELSE alive \union {o}
  /\ UNCHANGED <<history, fresh, selectedOutbound, check, dials, life>>

(* The interval passes since the test of an outbound. *)
Age(o) ==
  /\ o \in fresh
  /\ fresh' = fresh \ {o}
  /\ UNCHANGED <<outbounds, history, selectedOutbound, check, dials, life>>

(* The interval or the idle timeout passes since the last use. *)
Rest ==
  /\ group.ends
  /\ active # "idle"
  /\ active' = IF active = "now" THEN "used" ELSE "idle"
  /\ UNCHANGED <<outbounds, history, fresh, selectedOutbound, check, dials, ticker, loops, closing>>

-----------------------------------------------------------------------------
(* A check: urlTest and URLTestOutbounds. *)

(* The outbounds to test; a delay younger than the interval will do. *)
Due(force) == {o \in All : force \/ history[o] = 0 \/ o \notin fresh}

(* checking.Swap(true); a check that finds it set returns.  Those of the   *)
(* callers are forced, those of the goroutines are not.                    *)
BeginCheck(by) ==
  /\ checking = "no"
  /\ checking' = by
  /\ testing' = Due(by = "caller")
  /\ cancelled' = FALSE

Call ==
  /\ group.calls
  /\ BeginCheck("caller")
  /\ UNCHANGED <<outbounds, history, fresh, selectedOutbound, dials, life>>

Available(o, delay) ==
  /\ o \in testing
  /\ o \in alive
  /\ history' = [history EXCEPT ![o] = delay]
  /\ fresh' = fresh \union {o}
  /\ testing' = testing \ {o}
  /\ UNCHANGED <<outbounds, selectedOutbound, checking, cancelled, dials, life>>

(* Mutant: the delay of an outbound that does not respond stays. *)
UnavailableKept(o) ==
  /\ o \in testing
  /\ o \notin alive \/ cancelled
  /\ testing' = testing \ {o}
  /\ UNCHANGED <<outbounds, history, fresh, selectedOutbound, checking, cancelled, dials, life>>

(* The test fails, times out or is cancelled. *)
Unavailable(o) ==
  /\ o \in testing
  /\ o \notin alive \/ cancelled
  /\ history' = [history EXCEPT ![o] = 0]
  /\ fresh' = fresh \ {o}
  /\ testing' = testing \ {o}
  /\ UNCHANGED <<outbounds, selectedOutbound, checking, cancelled, dials, life>>

(* The caller of the running check gives up. *)
Cancel ==
  /\ checking = "caller"
  /\ ~ cancelled
  /\ cancelled' = TRUE
  /\ UNCHANGED <<outbounds, history, fresh, selectedOutbound, checking, testing, dials, life>>

-----------------------------------------------------------------------------
(* Select and performUpdateCheck. *)

(* Mutant: the tolerance is not applied. *)
BetterAtAll(delay, o) == delay = 0 \/ delay > history[o]

(* minDelay == 0 || minDelay > history.Delay+g.tolerance, in uint16. *)
Better(delay, o) == delay = 0 \/ delay > (history[o] + Tolerance) % Width

Delay(o) == IF o = Nil THEN 0 ELSE history[o]

(* The selected outbound, if it has a delay, or the first one that is      *)
(* better by more than the tolerance, and so on.                           *)
SelectTested(net) ==
  LET min[n \in 0 .. Len(Outbounds)] ==
        IF n = 0 THEN IF Delay(selectedOutbound[net]) # 0 THEN selectedOutbound[net] ELSE Nil
        ELSE IF /\ Supports(Outbounds[n], net)
                /\ history[Outbounds[n]] # 0
                /\ Better(Delay(min[n - 1]), Outbounds[n])
          THEN Outbounds[n] ELSE min[n - 1]
  IN min[Len(Outbounds)]

(* Without any delay, the first outbound for the network. *)
SelectFirst(net) ==
  LET able == {n \in DOMAIN Outbounds : Supports(Outbounds[n], net)}
  IN IF able = {} THEN Nil ELSE Outbounds[CHOOSE n \in able : \A m \in able : n <= m]

(* It is used, but replaces none. *)
Updated(net) ==
  IF SelectTested(net) # Nil THEN SelectTested(net)
  ELSE IF selectedOutbound[net] = Nil THEN SelectFirst(net) ELSE selectedOutbound[net]

(* PerformUpdateCheck is also called on its own. *)
performUpdateCheck == selectedOutbound' = [net \in Networks |-> Updated(net)]

PerformUpdateCheck ==
  /\ group.calls
  /\ performUpdateCheck
  /\ UNCHANGED <<outbounds, history, fresh, check, dials, life>>

(* A check whose context is done updates nothing.  loopCheck goes on, the  *)
(* goroutine of PostStart has done its work.                               *)
End ==
  /\ checking # "no"
  /\ testing = {}
  /\ checking' = "no"
  /\ IF cancelled THEN UNCHANGED selectedOutbound ELSE performUpdateCheck
  /\ loops' = [l \in DOMAIN loops |->
                 IF l # checking THEN loops[l] ELSE IF l = PostStart THEN "done" ELSE "wait"]
  /\ UNCHANGED <<outbounds, history, fresh, testing, cancelled, dials, active, ticker, closing>>

-----------------------------------------------------------------------------
(* The ticker: Touch, loopCheck and Close. *)

(* time.NewTicker and its goroutine. *)
NewTicker ==
  LET free == {t \in Tickers : loops[t] = "done"}
      t == CHOOSE t \in free : TRUE
  IN
  /\ free # {}
  /\ ticker' = t
  /\ loops' = [loops EXCEPT ![t] = "start"]
  /\ UNCHANGED active

(* Mutant: the goroutine is started whether or not there is a ticker. *)
TouchAgain == NewTicker

(* Under g.access; the time of use is stored only if there is a ticker. *)
Touch ==
  \/ /\ ticker = Nil
     /\ NewTicker
  \/ /\ ticker # Nil
     /\ active' = "now"
     /\ UNCHANGED <<ticker, loops>>

(* The CheckOutbounds of a goroutine, skipped if a check is running. *)
CheckOutbounds(l) ==
  \/ /\ BeginCheck(l)
     /\ loops' = [loops EXCEPT ![l] = "checking"]
  \/ /\ checking # "no"
     /\ loops' = [loops EXCEPT ![l] = IF l = PostStart THEN "done" ELSE "wait"]
     /\ UNCHANGED check

(* A loop begins with a check unless the group was used just now. *)
Start(l) ==
  /\ loops[l] = "start"
  /\ \/ /\ l = PostStart \/ active # "now"
        /\ CheckOutbounds(l)
        /\ active' = IF l = PostStart THEN active ELSE "now"
     \/ /\ l # PostStart /\ active = "now"
        /\ loops' = [loops EXCEPT ![l] = "wait"]
        /\ UNCHANGED <<active, check>>
  /\ UNCHANGED <<outbounds, history, fresh, selectedOutbound, dials, ticker, closing>>

(* A tick, while the ticker is not stopped. *)
Tick(t) ==
  /\ loops[t] = "wait"
  /\ ticker = t
  /\ active # "idle"
  /\ BeginCheck(t)
  /\ loops' = [loops EXCEPT ![t] = "checking"]
  /\ UNCHANGED <<outbounds, history, fresh, selectedOutbound, dials, active, ticker, closing>>

(* Mutant: the idle timeout is not looked at. *)
TickIgnored(t) ==
  /\ loops[t] = "wait"
  /\ ticker = t
  /\ active = "idle"
  /\ BeginCheck(t)
  /\ loops' = [loops EXCEPT ![t] = "checking"]
  /\ UNCHANGED <<outbounds, history, fresh, selectedOutbound, dials, active, ticker, closing>>

TickIdle(t) ==
  /\ loops[t] = "wait"
  /\ ticker = t
  /\ active = "idle"
  /\ loops' = [loops EXCEPT ![t] = "stop"]
  /\ UNCHANGED <<outbounds, history, fresh, selectedOutbound, check, dials, active, ticker, closing>>

(* Under g.access, which a Touch or Close may have had in between. *)
Stop(t) ==
  /\ loops[t] = "stop"
  /\ ticker' = IF ticker = t THEN Nil ELSE ticker
  /\ loops' = [loops EXCEPT ![t] = "done"]
  /\ UNCHANGED <<outbounds, history, fresh, selectedOutbound, check, dials, active, closing>>

(* <-closeChan. *)
Return(t) ==
  /\ loops[t] = "wait"
  /\ closing = "closed"
  /\ loops' = [loops EXCEPT ![t] = "done"]
  /\ UNCHANGED <<outbounds, history, fresh, selectedOutbound, check, dials, active, ticker, closing>>

(* Called once.  Without a ticker it leaves g.close open. *)
Close ==
  /\ group.ends
  /\ closing = "no"
  /\ closing' = IF ticker = Nil THEN "returned" ELSE "closed"
  /\ ticker' = Nil
  /\ UNCHANGED <<outbounds, history, fresh, selectedOutbound, check, dials, active, loops>>

-----------------------------------------------------------------------------
(* DialContext. *)

Dial(d) ==
  /\ dials[d] = Nil
  /\ Touch
  /\ LET o == IF selectedOutbound["tcp"] # Nil THEN selectedOutbound["tcp"]
              ELSE IF SelectTested("tcp") # Nil THEN SelectTested("tcp")
              ELSE SelectFirst("tcp")
     IN dials' = [dials EXCEPT ![d] = o]
  /\ UNCHANGED <<outbounds, history, fresh, selectedOutbound, check, closing>>

Dialled(d) ==
  /\ dials[d] # Nil
  /\ dials' = [dials EXCEPT ![d] = Nil]
  /\ UNCHANGED <<outbounds, history, fresh, selectedOutbound, check, life>>

(* For whatever reason the dial fails, the delay is deleted. *)
DialError(d) ==
  /\ dials[d] # Nil
  /\ history' = [history EXCEPT ![dials[d]] = 0]
  /\ fresh' = fresh \ {dials[d]}
  /\ dials' = [dials EXCEPT ![d] = Nil]
  /\ UNCHANGED <<outbounds, selectedOutbound, check, life>>

-----------------------------------------------------------------------------
Results == \E o \in All : (\E t \in group.delays : Available(o, t)) \/ Unavailable(o)

loopCheck(t) == Start(t) \/ Tick(t) \/ TickIdle(t) \/ Stop(t) \/ Return(t)

GroupNext ==
  /\ UNCHANGED group
  /\ \/ \E o \in All : Change(o) \/ Age(o)
     \/ Call \/ Results \/ Cancel \/ End \/ PerformUpdateCheck
     \/ Rest \/ Close \/ Start(PostStart)
     \/ \E t \in Tickers : loopCheck(t)
     \/ \E d \in Dialers : Dial(d) \/ Dialled(d) \/ DialError(d)

GroupSpec == GroupInit /\ [][GroupNext]_groupVars

(* Time passes; tests, checks, dials and steps of goroutines end.  select  *)
(* chooses fairly, and not every tick finds the check of another caller    *)
(* running.  No one has to dial.                                           *)
FairGroupSpec ==
  /\ GroupSpec
  /\ WF_groupVars(Results /\ UNCHANGED group) /\ WF_groupVars(End /\ UNCHANGED group)
  /\ WF_groupVars(Rest /\ UNCHANGED group) /\ \A o \in All : WF_groupVars(Age(o) /\ UNCHANGED group)
  /\ WF_groupVars((\E t \in Tickers : Start(t) \/ Stop(t) \/ TickIdle(t)) /\ UNCHANGED group)
  /\ SF_groupVars((\E t \in Tickers : Tick(t)) /\ UNCHANGED group)
  /\ SF_groupVars((\E t \in Tickers : Return(t)) /\ UNCHANGED group)
  /\ \A d \in Dialers : WF_groupVars((Dialled(d) \/ DialError(d)) /\ UNCHANGED group)

-----------------------------------------------------------------------------
Running == {t \in Tickers : loops[t] # "done"}

(* Until Close has closed g.close, exactly the current ticker has a        *)
(* goroutine that receives its ticks: no use starts a second one, and a    *)
(* pause leaves neither a goroutine nor a ticker without one, so that the  *)
(* next use starts them again.                                             *)
TickerServed == closing # "closed" => Running = {ticker} \ {Nil}

(* After Close, whatever it found, the goroutines end once there are no    *)
(* more dials, those included that a late dial has started.                *)
LoopsEnd ==
  <>[](closing # "no" /\ \A d \in Dialers : dials[d] = Nil) => <>[](Running = {})

(* Traffic is moved from an outbound that still responds only to one that  *)
(* is faster by more than the tolerance, so that it does not flap.         *)
NoFlapping ==
  [][\A net \in Networks :
       /\ selectedOutbound'[net] # selectedOutbound[net]
       /\ selectedOutbound[net] # Nil /\ history[selectedOutbound[net]] # 0
       => history[selectedOutbound'[net]] + Tolerance < history[selectedOutbound[net]]]_groupVars

(* README.md:70: if one outbound stops responding for good while another   *)
(* responds, the traffic moves to one that responds, as long as there is   *)
(* traffic and g.close is open.  (After group.changes changes the          *)
(* outbounds stay as they are.)                                            *)
FailsOver ==
  /\ <>[](alive # {})
  /\ [](closing # "closed")
  /\ []<>(\E d \in Dialers : dials[d] # Nil)
  => <>[](selectedOutbound["tcp"] \in alive)
=============================================================================
