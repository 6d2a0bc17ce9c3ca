------------------------------ MODULE WebConsole ------------------------------
(* The web page ROS_if.html: consoles, each an input line with a history, an   *)
(* output area and at most one roslib subscription.  The handlers run to their *)
(* end one at a time; what comes back from rosapi runs in a callback of its    *)
(* own, later, in any order.  The code writes each handler out once a console; *)
(* here the console is a parameter.                                            *)
EXTENDS Integers, Sequences

CONSTANTS Consoles, Topics,
          Nil,         \* no subscription, no topic
          MaxEnter     \* bound: lines entered on the page

(* Lines by what parse_stdin makes of them: "other" is "ros2 node ..." and     *)
(* "ros2 service ...", four words that nothing looks at.                       *)
Lines == [verb : {"clear", "invalid", "list", "other"}, topic : {Nil}]
             \union [verb : {"echo", "hz"}, topic : Topics]
EmptyLine == [verb |-> "invalid", topic |-> Nil]
Requests == [id : Nat, console : Consoles, line : Lines]

ASSUME WebAssumption == Nil \notin Topics \union Requests /\ MaxEnter \in Nat

Texts == {"invalid", "missing", "list", "messages"}

VARIABLES
    stdin,                  \* of each console: the line recalled, if any,
    history, history_index, \*   stdinN_history, stdinN_history_index
    stdout,                 \*   the kinds of text shown,
    listener,               \*   listenerN: a subscription or Nil
    live,        \* subscriptions that rosbridge serves
    pending,     \* calls of /rosapi/topics not answered yet
    entered,     \* lines entered so far
    asked        \* history: topics asked for since Escape last found none pending

input == <<stdin, history, history_index>>
webVars == <<input, stdout, listener, live, pending, entered, asked>>

WebInit ==
    /\ stdin = [c \in Consoles |-> EmptyLine]
    /\ history = [c \in Consoles |-> <<>>]
    /\ history_index = [c \in Consoles |-> 0]
    /\ stdout = [c \in Consoles |-> {}]
    /\ listener = [c \in Consoles |-> Nil]
    /\ live = {} /\ pending = {} /\ entered = 0
    /\ asked = [c \in Consoles |-> {}]

-------------------------------------------------------------------------------
(* The keys.                                                                   *)

(* parse_stdin: what the output area shows at once.                            *)
Shown(c, line) ==
    CASE line.verb = "clear"   -> {}
      [] line.verb = "invalid" -> {"invalid"}
      [] OTHER                 -> stdout[c]

(* The calls to rosapi that a line makes.                                      *)
Calls(c, line) ==
    IF line.verb \in {"list", "echo", "hz"}
    THEN {[id |-> entered, console |-> c, line |-> line]} ELSE {}

BeyondHistory(c) == Len(history'[c]) + 1        \* slip: one past the length
EndOfHistory(c) == Len(history'[c])

(* Enter, of the recalled line or of any other typed in its place.             *)
Enter(c, line) ==
    /\ entered < MaxEnter
    /\ entered' = entered + 1
    /\ history' = [history EXCEPT ![c] = Append(@, line)]
    /\ history_index' = [history_index EXCEPT ![c] = EndOfHistory(c)]
    /\ stdin' = [stdin EXCEPT ![c] = EmptyLine]
    /\ stdout' = [stdout EXCEPT ![c] = Shown(c, line)]
    /\ pending' = pending \union Calls(c, line)
    /\ asked' = [asked EXCEPT ![c] = @ \union ({line.topic} \ {Nil})]
    /\ UNCHANGED <<listener, live>>

(* Escape, in the input line or in the output area.                            *)
Escape(c) ==
    /\ live' = live \ {listener[c]}
    /\ listener' = [listener EXCEPT ![c] = Nil]
    /\ asked' = IF \E p \in pending : p.console = c THEN asked
                ELSE [asked EXCEPT ![c] = {}]
    /\ UNCHANGED <<input, stdout, pending, entered>>

NotOldest(c) == Len(history[c]) > 0 /\ history_index[c] > 0

ArrowUp(c) ==
    /\ NotOldest(c)
    /\ history_index' = [history_index EXCEPT ![c] = @ - 1]
    /\ stdin' = [stdin EXCEPT ![c] = history[c][history_index'[c] + 1]]
    /\ UNCHANGED <<history, stdout, listener, live, pending, entered, asked>>

ArrowDown(c) ==
    /\ history_index[c] < Len(history[c]) - 1
    /\ history_index' = [history_index EXCEPT ![c] = @ + 1]
    /\ stdin' = [stdin EXCEPT ![c] = history[c][history_index'[c] + 1]]
    /\ UNCHANGED <<history, stdout, listener, live, pending, entered, asked>>

-------------------------------------------------------------------------------
(* The callbacks.                                                              *)

ListReply(p) ==
    /\ p.line.verb = "list"
    /\ pending' = pending \ {p}
    /\ stdout' = [stdout EXCEPT ![p.console] = @ \union {"list"}]
    /\ UNCHANGED <<input, listener, live, entered, asked>>

(* The topic is not in rosapi's list: what was subscribed stays so.            *)
NotFoundReply(p) ==
    /\ p.line.verb # "list"
    /\ pending' = pending \ {p}
    /\ stdout' = [stdout EXCEPT ![p.console] = {"missing"}]
    /\ UNCHANGED <<input, listener, live, entered, asked>>

StillServed(c) == live                          \* slip: no unsubscribe()
Unsubscribed(c) == live \ {listener[c]}

FirstConsole(p) == CHOOSE c \in Consoles : TRUE \* slip: a wrong listener_id
ItsConsole(p) == p.console

FoundReply(p) ==
    LET c == ItsConsole(p) IN
    /\ p.line.verb # "list"
    /\ pending' = pending \ {p}
    /\ listener' = [listener EXCEPT ![c] = p]
    /\ live' = Unsubscribed(c) \union {p}
    /\ UNCHANGED <<input, stdout, entered, asked>>

(* A message on a subscribed topic is shown on the console that asked.         *)
Message(s) ==
    /\ stdout' = [stdout EXCEPT ![s.console] = @ \union {"messages"}]
    /\ UNCHANGED <<input, listener, live, pending, entered, asked>>

-------------------------------------------------------------------------------
WebNext ==
    \/ \E c \in Consoles :
           Escape(c) \/ ArrowUp(c) \/ ArrowDown(c) \/ \E line \in Lines : Enter(c, line)
    \/ \E p \in pending : ListReply(p) \/ NotFoundReply(p) \/ FoundReply(p)
    \/ \E s \in live : Message(s)

WebSpec == WebInit /\ [][WebNext]_webVars

-------------------------------------------------------------------------------
(* Properties.                                                                 *)

WebTypeOK ==
    /\ stdin \in [Consoles -> Lines]
    /\ history \in [Consoles -> Seq(Lines)]
    /\ history_index \in [Consoles -> Nat]
    /\ \A c \in Consoles : history_index[c] <= Len(history[c])
    /\ stdout \in [Consoles -> SUBSET Texts]
    /\ listener \in [Consoles -> Requests \union {Nil}]
    /\ live \subseteq Requests /\ pending \subseteq Requests
    /\ entered \in 0..MaxEnter /\ asked \in [Consoles -> SUBSET Topics]

(* Every subscription that rosbridge serves can still be cancelled: it is the  *)
(* listener of its own console, whatever replies overtake each other or come   *)
(* after an Escape (ROS_if.js:158-241, 279-346, 391-396).                      *)
NoLeak ==
    /\ live = {listener[c] : c \in Consoles} \ {Nil}
    /\ \A c \in Consoles : listener[c] # Nil => listener[c].console = c

(* A console only shows a topic asked for on that console since its user last  *)
(* pressed Escape with no call open: four copies of each handler do not mix up *)
(* their consoles (ROS_if.js:104-106, 158-241, 279-346, 383-539).              *)
ListenerWasAsked ==
    \A c \in Consoles : listener[c] # Nil => listener[c].line.topic \in asked[c]
===============================================================================
