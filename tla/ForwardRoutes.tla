---------------------------- MODULE ForwardRoutes ----------------------------
(***************************************************************************)
(* Forwarding aliases: MailboxService.CreateAlias (service/mailboxes.go)   *)
(* and the Cloudflare adapter (providers/cloudflare.go).  An alias is made *)
(* in four calls without a transaction: the destination addresses of the   *)
(* account are read, the routing rules of the zone are read, a rule is     *)
(* added when none is there, and the alias is inserted.  Whatever happens  *)
(* in between, the rule stays: nothing in the program removes one.  A      *)
(* source address is an alias address, a destination is a mailbox.         *)
(***************************************************************************)
EXTENDS RoutingRules

CONSTANT Clients   \* requests that create aliases

VARIABLES
    rules,         \* rules of the zone, in the order they were added
    destination,   \* destination addresses of the account
    connection,    \* the stored connection: "absent", "on" or "off"
    alias,         \* table mailbox_aliases: the mailbox of an address
    call,          \* per client: the alias it creates
    asks, events,
    exposed        \* history: addresses with a rule their listing could not show

vars == <<rules, destination, connection, alias, call, asks, events, exposed>>
Idle == [at |-> "idle"]

Init ==
    /\ rules \in FirstRules /\ destination = <<>> /\ connection = "absent"
    /\ alias = [s \in Sources |-> None] /\ call = [c \in Clients |-> Idle]
    /\ asks = 0 /\ events = 0
    /\ exposed = {s \in Sources : \E i, j \in DOMAIN rules : i # j /\ rules[i].source = s /\ rules[j].source = s}

Spend == events < MaxEvents /\ events' = events + 1

At(c, step) == call[c].at = step
Go(c, step) == call' = [call EXCEPT ![c].at = step]

-----------------------------------------------------------------------------
Ask(c) ==
    /\ At(c, "idle") /\ asks < MaxAsks /\ asks' = asks + 1
    /\ \E s \in Sources, m \in Mailboxes : call' = [call EXCEPT ![c] = [at |-> "resolve", source |-> s, to |-> m]]
    /\ UNCHANGED <<rules, destination, connection, alias, events, exposed>>

\* The request ends with an error; its client may send it again.
Refuse(c) == Go(c, "failed")
Again(c) == At(c, "failed") /\ Go(c, "resolve")
            /\ UNCHANGED <<rules, destination, connection, alias, asks, events, exposed>>

\* Every operation reads the stored connection first.
Resolve(c) ==
    /\ At(c, "resolve")
    /\ IF connection = "on" THEN Go(c, "destinations") ELSE Refuse(c)
    /\ UNCHANGED <<rules, destination, connection, alias, asks, events, exposed>>

\* An unknown destination is registered, which sends a confirmation, and the
\* request fails until the owner of the mailbox has confirmed it.
EnsureDestination(c) ==
    LET m == call[c].to
        known == {d \in FirstPage(destination) : d.mailbox = m}
    IN  /\ At(c, "destinations")
        /\ IF \E d \in known : d.verified
             THEN Go(c, "rules") /\ UNCHANGED destination
             ELSE /\ Refuse(c)
                  /\ destination' = IF known # {} \/ \E d \in Range(destination) : d.mailbox = m
                                      THEN destination
                                      ELSE Append(destination, [mailbox |-> m, verified |-> FALSE])
        /\ UNCHANGED <<rules, connection, alias, asks, events, exposed>>

\* The first rule of the page that matches the source decides; whether it is
\* enabled is not looked at.
SlipFindRule(c) == {}
FindRule(c) == {i \in DOMAIN rules : /\ i <= PageSize /\ rules[i].source = call[c].source
                                     /\ \A j \in 1..(i - 1) : rules[j].source # call[c].source}

\* The listing says nothing of a rule behind its page, nor of one that another
\* request is about to add.
Unshown(c) ==
    \/ \E i \in DOMAIN rules : i > PageSize /\ rules[i].source = call[c].source
    \/ \E d \in Clients \ {c} : At(d, "post") /\ call[d].source = call[c].source
Found(c) ==
    exposed' = IF FindRule(c) = {} /\ Unshown(c) THEN exposed \cup {call[c].source} ELSE exposed

ListRules(c) ==
    /\ At(c, "rules") /\ Found(c)
    /\ \/ FindRule(c) = {} /\ Go(c, "post")
       \/ \E i \in FindRule(c) : IF rules[i].to = call[c].to THEN Go(c, "insert") ELSE Refuse(c)
    /\ UNCHANGED <<rules, destination, connection, alias, asks, events>>

\* Cloudflare may add the rule although its answer is lost.
Post(c) ==
    /\ At(c, "post")
    /\ \/ /\ rules' = Append(rules, [source |-> call[c].source, to |-> call[c].to, on |-> TRUE])
          /\ \/ Go(c, "insert") /\ UNCHANGED events
             \/ Spend /\ Refuse(c)
       \/ Spend /\ Refuse(c) /\ UNCHANGED rules
    /\ UNCHANGED <<destination, connection, alias, asks, exposed>>

\* The address of an alias is unique.
Insert(c) ==
    /\ At(c, "insert")
    /\ \/ /\ alias[call[c].source] = None /\ alias' = [alias EXCEPT ![call[c].source] = call[c].to]
          /\ call' = [call EXCEPT ![c] = Idle] /\ UNCHANGED events
       \/ alias[call[c].source] # None /\ call' = [call EXCEPT ![c] = Idle] /\ UNCHANGED <<alias, events>>
       \/ Spend /\ Refuse(c) /\ UNCHANGED alias
    /\ UNCHANGED <<rules, destination, connection, asks, exposed>>

Crash ==
    /\ Spend
    /\ call' = [c \in Clients |-> IF At(c, "idle") THEN Idle ELSE [call[c] EXCEPT !.at = "failed"]]
    /\ UNCHANGED <<rules, destination, connection, alias, asks, exposed>>

\* The administrator stores or switches the connection, a mailbox owner
\* confirms the address.
Connect ==
    /\ connection # "on" /\ connection' = "on"
    /\ UNCHANGED <<rules, destination, alias, call, asks, events, exposed>>
SwitchOff ==
    /\ connection = "on" /\ Spend /\ connection' = "off"
    /\ UNCHANGED <<rules, destination, alias, call, asks, exposed>>
Confirm ==
    /\ \E i \in DOMAIN destination :
          ~destination[i].verified /\ destination' = [destination EXCEPT ![i].verified = TRUE]
    /\ UNCHANGED <<rules, connection, alias, call, asks, events, exposed>>

CallStep(c) ==
    Resolve(c) \/ EnsureDestination(c) \/ ListRules(c) \/ Post(c) \/ Insert(c) \/ Again(c)

Next ==
    \/ \E c \in Clients : Ask(c) \/ CallStep(c)
    \/ Crash \/ Connect \/ SwitchOff \/ Confirm

Spec == Init /\ [][Next]_vars

\* A request goes on and its client repeats it, the connection is switched on
\* again and addresses are confirmed.
Fairness == (\A c \in Clients : WF_vars(CallStep(c))) /\ WF_vars(Connect) /\ WF_vars(Confirm)
LiveSpec == Spec /\ Fairness

-----------------------------------------------------------------------------
TypeOK ==
    /\ rules \in Seq(Rules)
    /\ \A i, j \in DOMAIN destination : destination[i].mailbox = destination[j].mailbox => i = j
    /\ connection \in {"absent", "on", "off"} /\ alias \in [Sources -> Mailboxes \cup {None}]
    /\ \A c \in Clients : call[c].at \in {"idle", "failed", "resolve", "destinations", "rules", "post", "insert"}
    /\ asks \in 0..MaxAsks /\ events \in 0..MaxEvents /\ exposed \subseteq Sources

\* An alias is shown only when the mail to its address is forwarded to its
\* mailbox and nowhere else (README.md:15): at its insert an enabled rule does
\* that and no rule sends the address elsewhere.
AliasForwards ==
    [][\A s \in Sources : alias[s] # alias'[s] =>
          /\ \E i \in DOMAIN rules : rules[i].source = s /\ rules[i].to = alias'[s] /\ rules[i].on
          /\ \A i \in DOMAIN rules : rules[i].source = s => rules[i].to = alias'[s]]_vars

\* Creating a route is idempotent (docs/architecture.md:77): lost answers,
\* failed inserts and crashes leave no two rules for one address.  Two rules are
\* there only when they were at the start, or when a listing could not show the
\* first: it was behind the page, or another request was about to add it.
OneRulePerAddress ==
    \A i, j \in DOMAIN rules : rules[i].source = rules[j].source => i = j \/ rules[i].source \in exposed

=============================================================================
