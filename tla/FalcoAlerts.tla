---------------------------- MODULE FalcoAlerts ----------------------------
(***************************************************************************)
(* Falco events as the dashboard handles them.  Falco posts an event, the  *)
(* rules of its cluster decide whether it is ignored, stored in silence or *)
(* stored and reported, and a report goes by e-mail to every recipient     *)
(* unless the anomaly was reported not long ago.  The rules come from a    *)
(* cache in the memory of the process, which lives for one minute.         *)
(*                                                                         *)
(* An event is known by its anomaly signature, the hash of its cluster,    *)
(* rule, namespace and image: the rules and the mails look at nothing      *)
(* else.  Time is kept as ages that stop growing once nothing depends on   *)
(* them, so that the system can run for ever in finitely many states.      *)
(***************************************************************************)
EXTENDS Naturals, FiniteSets

CONSTANTS
  Clusters,
  Signatures,   \* anomaly signatures
  Home,         \* Home[s]: the cluster of signature s
  Recipients,   \* addresses that the settings lead to
  Handlers,     \* requests in progress at once
  RuleIds,      \* bound: rules ever created, numbered as they are created
  MaxEdits,     \* bound: changes to rules and settings
  Frequency,    \* falco_settings.anomaly_notification_frequency
  CacheTTL,     \* the minute a cached listing lives
  Kept,         \* rules that no administrator touches
  MaxFaults     \* bound: failed queries and mails, restarts

ASSUME FalcoAssumption ==
  /\ Home \in [Signatures -> Clusters]
  /\ Recipients # {}
  /\ RuleIds \subseteq Nat \ {0} /\ 1 \in RuleIds
  /\ {MaxEdits, Frequency, CacheTTL, MaxFaults} \subseteq Nat

VARIABLES
  rules,    \* falco_rules with its two join tables
  edits,    \* changes that administrators have made so far
  faults,   \* failures so far
  settings, \* falco_settings: per cluster, the signatures severe enough
  cache,    \* ruleCache: per cluster, a listing and its age
  pc,       \* per request: the answer it waits for
  event,    \* per request: the signature
  listing,  \* per request: the rules it has read
  silent,   \* per request: skipAnomalyEmail
  todo,     \* per request: recipients not yet mailed
  sent,     \* per request: how long ago emailSentTime was
  logs,     \* project_falco_logs: the signatures stored
  mails,    \* falco_email: per signature, the ages of its rows
  inbox     \* per signature, the recipients that got a mail

adminVars == <<rules, edits, settings>>
requestVars == <<pc, event, listing, silent, todo, sent>>
vars == <<adminVars, faults, cache, requestVars, logs, mails, inbox>>

Bodies == [scope : SUBSET Clusters, hits : SUBSET Signatures,
           action : {"ignore", "silence"}]
Rules == [body : Bodies, live : BOOLEAN]
Listings == UNION {[ids -> Bodies] : ids \in SUBSET RuleIds}
Ages == 0 .. Frequency

TypeOK ==
  /\ DOMAIN rules \subseteq RuleIds /\ rules \in [DOMAIN rules -> Rules]
  /\ edits \in 0 .. MaxEdits
  /\ faults \in 0 .. MaxFaults
  /\ settings \in [Clusters -> SUBSET Signatures]
  /\ cache \in [Clusters -> [rules : Listings, age : 0 .. CacheTTL]]
  /\ pc \in [Handlers -> {"idle", "query", "fill", "insert", "settings",
                          "last", "mail", "record"}]
  /\ event \in [Handlers -> Signatures]
  /\ listing \in [Handlers -> Listings]
  /\ silent \in [Handlers -> BOOLEAN]
  /\ todo \in [Handlers -> SUBSET Recipients]
  /\ \A h \in Handlers : pc[h] = "mail" => todo[h] # {}
  /\ sent \in [Handlers -> Ages]
  /\ logs \in SUBSET Signatures
  /\ mails \in [Signatures -> SUBSET Ages]
  /\ inbox \in [Signatures -> SUBSET Recipients]

NoRules == [i \in {} |-> {}]
Empty == [rules |-> NoRules, age |-> CacheTTL]

(* The migration that adds the join tables creates one rule for all        *)
(* clusters, which ignores the events of two system namespaces.            *)
Init ==
  /\ \E hits \in SUBSET Signatures :
       rules = [i \in {1} |->
         [body |-> [scope |-> {}, hits |-> hits, action |-> "ignore"],
          live |-> TRUE]]
  /\ edits = 0
  /\ faults = 0
  /\ settings = [c \in Clusters |-> {}]
  /\ cache = [c \in Clusters |-> Empty]
  /\ pc = [h \in Handlers |-> "idle"]
  /\ event \in [Handlers -> Signatures]
  /\ listing = [h \in Handlers |-> NoRules]
  /\ silent = [h \in Handlers |-> FALSE]
  /\ todo = [h \in Handlers |-> {}]
  /\ sent = [h \in Handlers |-> 0]
  /\ logs = {}
  /\ mails = [s \in Signatures |-> {}]
  /\ inbox = [s \in Signatures |-> {}]

Move(h, from, to) ==
  /\ pc[h] = from
  /\ pc' = [pc EXCEPT ![h] = to]

(* listActiveFalcoRules of a cluster.                                      *)
Listed(c) ==
  LET ids == {i \in DOMAIN rules : rules[i].live /\
                (rules[i].body.scope = {} \/ c \in rules[i].body.scope)}
  IN  [i \in ids |-> rules[i].body]

(* A wrong checkRules: the newest matching rule decides.                   *)
LastHitIs(list, s, action) ==
  \E i \in DOMAIN list :
    /\ s \in list[i].hits /\ list[i].action = action
    /\ \A j \in DOMAIN list : s \in list[j].hits => j <= i

(* checkRules: the oldest matching rule decides.                           *)
FirstHitIs(list, s, action) ==
  \E i \in DOMAIN list :
    /\ s \in list[i].hits /\ list[i].action = action
    /\ \A j \in DOMAIN list : s \in list[j].hits => i <= j

(* What the rules make of the event of request h.                          *)
Decide(h, s, list) ==
  /\ pc' = [pc EXCEPT ![h] =
       IF FirstHitIs(list, s, "ignore") THEN "idle" ELSE "insert"]
  /\ silent' = [silent EXCEPT ![h] = FirstHitIs(list, s, "silence")]

-----------------------------------------------------------------------------
(* Requests *)

(* DataCache.data                                                          *)
Cached(c) == cache[c].age < CacheTTL

(* Falco posts an event with a valid key.                                  *)
Receive(h, s) ==
  /\ pc[h] = "idle"
  /\ event' = [event EXCEPT ![h] = s]
  /\ IF Cached(Home[s])
       THEN Decide(h, s, cache[Home[s]].rules)
       ELSE pc' = [pc EXCEPT ![h] = "query"] /\ UNCHANGED silent
  /\ UNCHANGED <<adminVars, faults, cache, listing, todo, sent, logs, mails,
                 inbox>>

QueryRules(h) ==
  /\ Move(h, "query", "fill")
  /\ listing' = [listing EXCEPT ![h] = Listed(Home[event[h]])]
  /\ UNCHANGED <<adminVars, faults, cache, event, silent, todo, sent, logs,
                 mails, inbox>>

(* Requests that found the cache empty at the same time all fill it.       *)
FillCache(h) ==
  /\ pc[h] = "fill"
  /\ cache' = [cache EXCEPT ![Home[event[h]]] =
                 [rules |-> listing[h], age |-> 0]]
  /\ Decide(h, event[h], listing[h])
  /\ listing' = [listing EXCEPT ![h] = NoRules]
  /\ UNCHANGED <<adminVars, faults, event, todo, sent, logs, mails, inbox>>

InsertLog(h) ==
  /\ Move(h, "insert", IF silent[h] THEN "idle" ELSE "settings")
  /\ logs' = logs \cup {event[h]}
  /\ UNCHANGED <<adminVars, faults, cache, event, listing, silent, todo, sent,
                 mails, inbox>>

(* sendFalcoEmailAlert: no settings, notifications off and a severity not  *)
(* chosen all end it.                                                      *)
ReadSettings(h) ==
  /\ Move(h, "settings",
          IF event[h] \in settings[Home[event[h]]] THEN "last" ELSE "idle")
  /\ UNCHANGED <<adminVars, faults, cache, event, listing, silent, todo, sent,
                 logs, mails, inbox>>

(* A wrong sendFalcoEmailAlert, to which any earlier mail is enough.       *)
ReadWhetherMailed(h) ==
  /\ Move(h, "last", IF mails[event[h]] = {} THEN "mail" ELSE "idle")
  /\ todo' = [todo EXCEPT ![h] = IF pc'[h] = "mail" THEN Recipients ELSE {}]
  /\ UNCHANGED <<adminVars, faults, cache, event, listing, silent, sent, logs,
                 mails, inbox>>

(* falcoEmailAlreadySent: the first of the rows, in no particular order.   *)
ReadLastMail(h) ==
  /\ \/ mails[event[h]] = {} /\ Move(h, "last", "mail")
     \/ \E age \in mails[event[h]] :
          Move(h, "last", IF age >= Frequency THEN "mail" ELSE "idle")
  /\ todo' = [todo EXCEPT ![h] = IF pc'[h] = "mail" THEN Recipients ELSE {}]
  /\ UNCHANGED <<adminVars, faults, cache, event, listing, silent, sent, logs,
                 mails, inbox>>

AfterMail(h, r) == IF todo[h] \subseteq {r} THEN "idle" ELSE "mail"

SendMail(h, r) ==
  /\ r \in todo[h]
  /\ Move(h, "mail", "record")
  /\ inbox' = [inbox EXCEPT ![event[h]] = @ \cup {r}]
  /\ todo' = [todo EXCEPT ![h] = @ \ {r}]
  /\ sent' = [sent EXCEPT ![h] = 0]
  /\ UNCHANGED <<adminVars, faults, cache, event, listing, silent, logs, mails>>

(* EmailService.send returns null: the other recipients get theirs.        *)
MailFails(h, r) ==
  /\ faults < MaxFaults
  /\ r \in todo[h]
  /\ Move(h, "mail", AfterMail(h, r))
  /\ faults' = faults + 1
  /\ todo' = [todo EXCEPT ![h] = @ \ {r}]
  /\ UNCHANGED <<adminVars, cache, event, listing, silent, sent, logs, mails,
                 inbox>>

(* addFalcoEmail: a row for every mail, with the time it was sent.         *)
RecordMail(h) ==
  /\ Move(h, "record", IF todo[h] = {} THEN "idle" ELSE "mail")
  /\ mails' = [mails EXCEPT ![event[h]] = @ \cup {sent[h]}]
  /\ sent' = [sent EXCEPT ![h] = 0]
  /\ UNCHANGED <<adminVars, faults, cache, event, listing, silent, todo, logs,
                 inbox>>

(* A query fails: the request ends with an error, whatever was left to do. *)
RequestFails(h) ==
  /\ faults < MaxFaults
  /\ pc[h] # "idle"
  /\ faults' = faults + 1
  /\ pc' = [pc EXCEPT ![h] = "idle"]
  /\ listing' = [listing EXCEPT ![h] = NoRules]
  /\ todo' = [todo EXCEPT ![h] = {}]
  /\ sent' = [sent EXCEPT ![h] = 0]
  /\ UNCHANGED <<adminVars, cache, event, silent, logs, mails, inbox>>

Restart ==
  /\ faults < MaxFaults
  /\ faults' = faults + 1
  /\ cache' = [c \in Clusters |-> Empty]
  /\ pc' = [h \in Handlers |-> "idle"]
  /\ listing' = [h \in Handlers |-> NoRules]
  /\ todo' = [h \in Handlers |-> {}]
  /\ sent' = [h \in Handlers |-> 0]
  /\ UNCHANGED <<adminVars, event, silent, logs, mails, inbox>>

-----------------------------------------------------------------------------
(* Administrators: each change is one transaction, or one statement *)

othersThanRules == <<settings, faults, cache, requestVars, logs, mails, inbox>>

CreateRule(body) ==
  /\ edits < MaxEdits
  /\ edits' = edits + 1
  /\ \E i \in RuleIds \ DOMAIN rules :
       /\ \A j \in DOMAIN rules : j < i
       /\ \A j \in RuleIds : j < i => j \in DOMAIN rules
       /\ rules' = [k \in DOMAIN rules \cup {i} |->
            IF k = i THEN [body |-> body, live |-> TRUE] ELSE rules[k]]
  /\ UNCHANGED othersThanRules

(* The rule is written although it may be deleted, and stays so.           *)
UpdateRule(i, body) ==
  /\ edits < MaxEdits
  /\ i \in DOMAIN rules \ Kept
  /\ edits' = edits + 1
  /\ rules' = [rules EXCEPT ![i] = [body |-> body, live |-> @.live]]
  /\ UNCHANGED othersThanRules

DeleteRule(i) ==
  /\ edits < MaxEdits
  /\ i \in DOMAIN rules \ Kept
  /\ edits' = edits + 1
  /\ rules' = [rules EXCEPT ![i] = [body |-> @.body, live |-> FALSE]]
  /\ UNCHANGED othersThanRules

SaveSettings(c, severe) ==
  /\ edits < MaxEdits
  /\ \A s \in severe : Home[s] = c
  /\ edits' = edits + 1
  /\ settings' = [settings EXCEPT ![c] = severe]
  /\ UNCHANGED <<rules, faults, cache, requestVars, logs, mails, inbox>>

-----------------------------------------------------------------------------
Older(age, limit) == IF age < limit THEN age + 1 ELSE age

(* A wrong cache, whose entries do not expire.                             *)
Unaged(entry) == entry
Aged(entry) ==
  IF entry.age + 1 >= CacheTTL THEN Empty
  ELSE [rules |-> entry.rules, age |-> entry.age + 1]

Tick ==
  /\ cache' = [c \in Clusters |-> Aged(cache[c])]
  /\ mails' = [s \in Signatures |-> {Older(a, Frequency) : a \in mails[s]}]
  /\ sent' = [h \in Handlers |->
       IF pc[h] = "record" THEN Older(sent[h], Frequency) ELSE sent[h]]
  /\ UNCHANGED <<adminVars, faults, pc, event, listing, silent, todo, logs,
                 inbox>>

Handle(h) ==
  \/ QueryRules(h) \/ FillCache(h) \/ InsertLog(h) \/ ReadSettings(h)
  \/ ReadLastMail(h) \/ RecordMail(h)
  \/ \E r \in Recipients : SendMail(h, r)

Next ==
  \/ \E h \in Handlers :
       \/ \E s \in Signatures : Receive(h, s)
       \/ Handle(h)
       \/ \E r \in Recipients : MailFails(h, r)
       \/ RequestFails(h)
  \/ \E body \in Bodies : CreateRule(body)
  \/ \E i \in DOMAIN rules :
       DeleteRule(i) \/ \E body \in Bodies : UpdateRule(i, body)
  \/ \E c \in Clusters, severe \in SUBSET Signatures : SaveSettings(c, severe)
  \/ Tick
  \/ Restart

Spec == Init /\ [][Next]_vars

(* Requests in progress go on, time passes, and Falco keeps reporting      *)
(* every anomaly.                                                          *)
FairSpec ==
  /\ Spec
  /\ WF_vars(Tick)
  /\ \A h \in Handlers : WF_vars(Handle(h))
  /\ \A s \in Signatures : SF_vars(\E h \in Handlers : Receive(h, s))

-----------------------------------------------------------------------------
(* Properties *)

(* The rules are tried from the oldest on, and the first of them is the    *)
(* one the migration creates: as long as nobody touches it, what it        *)
(* ignores is never stored, whatever rules are added or changed, and       *)
(* whichever of the listings a request decides by.                         *)
FirstRuleHolds == 1 \in Kept => rules[1].body.hits \cap logs = {}

(* What a cluster's requests find in the cache                             *)
Current(c) == Cached(c) => cache[c].rules = Listed(c)

(* "1min": after the last change of a rule, requests come to decide by the *)
(* rules as they are, for good, although a slow request may put an old     *)
(* listing into the cache long after the change.                           *)
RulesTakeEffect == <>[](\A c \in Clusters : Current(c))

(* No rule stops the signature and the settings ask for it.                *)
Wanted(s) ==
  /\ s \in settings[Home[s]]
  /\ ~\E i \in DOMAIN Listed(Home[s]) : s \in Listed(Home[s])[i].hits

(* A wanted anomaly that keeps happening is reported to every recipient,   *)
(* however mails, queries and the process failed for some of them before.  *)
EveryRecipientHears ==
  \A s \in Signatures : <>[]Wanted(s) => <>(inbox[s] = Recipients)

=============================================================================
