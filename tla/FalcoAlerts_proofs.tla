------------------------- MODULE FalcoAlerts_proofs -------------------------
(* Theorems about FalcoAlerts, for every value of its constants. *)
EXTENDS FalcoAlerts, TLAPS

LEMMA ListingType ==
  ASSUME NEW f
  PROVE  f \in Listings <=> DOMAIN f \subseteq RuleIds /\ f \in [DOMAIN f -> Bodies]
  BY DEF Listings

LEMMA ListedType ==
  ASSUME TypeOK, NEW c
  PROVE  Listed(c) \in Listings
  BY ListingType DEF TypeOK, Listed, Rules

LEMMA NoRulesType == NoRules \in Listings
  BY ListingType DEF NoRules

LEMMA HitIsBoolean ==
  ASSUME NEW list, NEW s, NEW a
  PROVE  FirstHitIs(list, s, a) \in BOOLEAN
  BY DEF FirstHitIs

LEMMA DecideType ==
  ASSUME TypeOK, NEW h \in Handlers, NEW s, NEW list, Decide(h, s, list)
  PROVE  /\ pc' \in [Handlers -> {"idle", "query", "fill", "insert",
                                  "settings", "last", "mail", "record"}]
         /\ silent' \in [Handlers -> BOOLEAN]
         /\ pc'[h] \in {"idle", "insert"}
         /\ \A g \in Handlers : g # h => pc'[g] = pc[g]
<1>1. FirstHitIs(list, s, "silence") \in BOOLEAN
  BY HitIsBoolean
<1>. DEFINE b == FirstHitIs(list, s, "silence")
<1>2. silent' = [silent EXCEPT ![h] = b]
  BY DEF Decide
<1>3. b \in BOOLEAN
  BY <1>1
<1>. HIDE DEF b
<1>4. silent' \in [Handlers -> BOOLEAN]
  BY <1>2, <1>3 DEF TypeOK
<1>. QED BY <1>4 DEF Decide, TypeOK

(* Every variable keeps its type, and no request loops over recipients     *)
(* when none is left, whatever requests, changes, failures and restarts    *)
(* interleave.                                                             *)
THEOREM TypeCorrect == Spec => []TypeOK
<1>. USE FalcoAssumption
<1>1. Init => TypeOK
  <2>. SUFFICES ASSUME Init PROVE TypeOK
    OBVIOUS
  <2>1. DOMAIN rules \subseteq RuleIds /\ rules \in [DOMAIN rules -> Rules]
    BY DEF Init, Rules, Bodies
  <2>2. cache \in [Clusters -> [rules : Listings, age : 0 .. CacheTTL]]
    BY NoRulesType DEF Init, Empty
  <2>3. listing \in [Handlers -> Listings]
    BY NoRulesType DEF Init
  <2>. QED BY <2>1, <2>2, <2>3 DEF Init, TypeOK, Ages
<1>2. TypeOK /\ [Next]_vars => TypeOK'
  <2>. SUFFICES ASSUME TypeOK, [Next]_vars PROVE TypeOK'
    OBVIOUS
  <2>. USE DEF adminVars, requestVars
  <2>1. ASSUME NEW h \in Handlers, NEW s \in Signatures, Receive(h, s)
        PROVE TypeOK'
    <3>1. CASE Cached(Home[s])
      <4>1. Decide(h, s, cache[Home[s]].rules)
        BY <2>1, <3>1 DEF Receive
      <4>. QED BY <2>1, <4>1, DecideType DEF Receive, TypeOK, Ages
    <3>2. CASE ~Cached(Home[s])
      BY <2>1, <3>2 DEF Receive, TypeOK, Ages
    <3>. QED BY <3>1, <3>2
  <2>2. ASSUME NEW h \in Handlers, QueryRules(h) PROVE TypeOK'
    <3>1. Listed(Home[event[h]]) \in Listings
      BY ListedType
    <3>. QED BY <2>2, <3>1 DEF QueryRules, Move, TypeOK, Ages
  <2>3. ASSUME NEW h \in Handlers, FillCache(h) PROVE TypeOK'
    <3>1. cache' \in [Clusters -> [rules : Listings, age : 0 .. CacheTTL]]
      BY <2>3 DEF FillCache, TypeOK
    <3>2. listing' \in [Handlers -> Listings]
      BY <2>3, NoRulesType DEF FillCache, TypeOK
    <3>3. Decide(h, event[h], listing[h])
      BY <2>3 DEF FillCache
    <3>. QED BY <2>3, <3>1, <3>2, <3>3, DecideType DEF FillCache, TypeOK, Ages
  <2>4. ASSUME NEW h \in Handlers, InsertLog(h) PROVE TypeOK'
    BY <2>4 DEF InsertLog, Move, TypeOK, Ages
  <2>5. ASSUME NEW h \in Handlers, ReadSettings(h) PROVE TypeOK'
    BY <2>5 DEF ReadSettings, Move, TypeOK, Ages
  <2>6. ASSUME NEW h \in Handlers, ReadLastMail(h) PROVE TypeOK'
    <3>1. /\ pc[h] = "last"
          /\ \E to \in {"mail", "idle"} : pc' = [pc EXCEPT ![h] = to]
      BY <2>6 DEF ReadLastMail, Move
    <3>. QED BY <2>6, <3>1 DEF ReadLastMail, TypeOK, Ages
  <2>7. ASSUME NEW h \in Handlers, NEW r \in Recipients, SendMail(h, r)
        PROVE TypeOK'
    BY <2>7 DEF SendMail, Move, TypeOK, Ages
  <2>8. ASSUME NEW h \in Handlers, NEW r \in Recipients, MailFails(h, r)
        PROVE TypeOK'
    BY <2>8 DEF MailFails, AfterMail, Move, TypeOK, Ages
  <2>9. ASSUME NEW h \in Handlers, RecordMail(h) PROVE TypeOK'
    BY <2>9 DEF RecordMail, Move, TypeOK, Ages
  <2>10. ASSUME NEW h \in Handlers, RequestFails(h) PROVE TypeOK'
    BY <2>10, NoRulesType DEF RequestFails, TypeOK, Ages
  <2>11. CASE Restart
    BY <2>11, NoRulesType DEF Restart, Empty, TypeOK, Ages
  <2>12. ASSUME NEW body \in Bodies, CreateRule(body) PROVE TypeOK'
    BY <2>12 DEF CreateRule, othersThanRules, TypeOK, Rules
  <2>13. ASSUME NEW i, NEW body \in Bodies, UpdateRule(i, body) PROVE TypeOK'
    BY <2>13 DEF UpdateRule, othersThanRules, TypeOK, Rules
  <2>14. ASSUME NEW i, DeleteRule(i) PROVE TypeOK'
    BY <2>14 DEF DeleteRule, othersThanRules, TypeOK, Rules
  <2>15. ASSUME NEW c \in Clusters, NEW severe \in SUBSET Signatures,
                SaveSettings(c, severe)
         PROVE TypeOK'
    BY <2>15 DEF SaveSettings, TypeOK
  <2>16. CASE Tick
    <3>1. \A a \in Ages : Older(a, Frequency) \in Ages
      BY DEF Older, Ages
    <3>2. sent' \in [Handlers -> Ages]
      BY <2>16, <3>1 DEF Tick, TypeOK
    <3>3. mails' \in [Signatures -> SUBSET Ages]
      BY <2>16, <3>1 DEF Tick, TypeOK
    <3>4. cache' \in [Clusters -> [rules : Listings, age : 0 .. CacheTTL]]
      BY <2>16, NoRulesType DEF Tick, Aged, TypeOK, Empty
    <3>. QED BY <2>16, <3>2, <3>3, <3>4 DEF Tick, TypeOK
  <2>17. CASE UNCHANGED vars
    BY <2>17 DEF vars, TypeOK
  <2>. QED
    BY <2>1, <2>2, <2>3, <2>4, <2>5, <2>6, <2>7, <2>8, <2>9, <2>10, <2>11,
       <2>12, <2>13, <2>14, <2>15, <2>16, <2>17 DEF Next, Handle
<1>. QED BY <1>1, <1>2, PTL DEF Spec

-----------------------------------------------------------------------------
(* A listing begins with the first rule as the migration wrote it.         *)
Begins(list, hits) ==
  /\ DOMAIN list \subseteq RuleIds /\ 1 \in DOMAIN list
  /\ list[1].hits = hits /\ list[1].action = "ignore"

(* The strengthening of FirstRuleHolds: the rule itself is as it was, and  *)
(* so it is in every listing that a request has read or may take from the  *)
(* cache, however old that is; a request about to insert has passed it.    *)
FirstRuleInv ==
  /\ 1 \in DOMAIN rules /\ rules[1].live
  /\ rules[1].body.scope = {} /\ rules[1].body.action = "ignore"
  /\ \A c \in Clusters : Cached(c) => Begins(cache[c].rules, rules[1].body.hits)
  /\ \A h \in Handlers :
       /\ pc[h] = "fill" => Begins(listing[h], rules[1].body.hits)
       /\ pc[h] = "insert" => event[h] \notin rules[1].body.hits
  /\ rules[1].body.hits \cap logs = {}

(* The oldest rule decides, so what it ignores is never inserted.          *)
LEMMA FirstRuleDecides ==
  ASSUME NEW list, NEW hits, Begins(list, hits), NEW s \in hits
  PROVE  FirstHitIs(list, s, "ignore")
<1>0. \A j \in RuleIds : j \in Nat /\ j # 0
  BY FalcoAssumption
<1>1. \A j \in DOMAIN list : 1 <= j
  BY <1>0 DEF Begins
<1>. QED BY <1>1 DEF Begins, FirstHitIs

LEMMA ListedBegins ==
  ASSUME TypeOK, FirstRuleInv, NEW c
  PROVE  Begins(Listed(c), rules[1].body.hits)
  BY DEF TypeOK, FirstRuleInv, Listed, Begins

(* What the first rule of the migration ignores is never stored, as long   *)
(* as nobody touches that rule: for any number of clusters, rules, changes *)
(* and overlapping requests, whatever listing each of them decides by.     *)
THEOREM FirstRuleAlwaysHolds == Spec => []FirstRuleHolds
<1>. USE FalcoAssumption
<1>0. SUFFICES ASSUME 1 \in Kept PROVE Spec => []FirstRuleHolds
  <2>1. CASE 1 \in Kept
    BY <1>0, <2>1
  <2>2. CASE 1 \notin Kept
    <3>1. FirstRuleHolds
      BY <2>2 DEF FirstRuleHolds
    <3>. QED BY <3>1, PTL
  <2>. QED BY <2>1, <2>2
<1>1. Init => FirstRuleInv
  BY DEF Init, FirstRuleInv, Cached, Empty
<1>2. TypeOK /\ FirstRuleInv /\ [Next]_vars => FirstRuleInv'
  <2>. SUFFICES ASSUME TypeOK, FirstRuleInv, [Next]_vars PROVE FirstRuleInv'
    OBVIOUS
  <2>. USE DEF adminVars, requestVars
  <2>1. ASSUME NEW h \in Handlers, NEW s \in Signatures, Receive(h, s)
        PROVE FirstRuleInv'
    <3>1. CASE Cached(Home[s])
      <4>1. s \in rules[1].body.hits =>
              FirstHitIs(cache[Home[s]].rules, s, "ignore")
        BY <3>1, FirstRuleDecides DEF FirstRuleInv
      <4>2. s \in rules[1].body.hits => pc'[h] # "insert"
        BY <2>1, <3>1, <4>1 DEF Receive, Decide, TypeOK
      <4>3. pc'[h] # "fill" /\ \A g \in Handlers : g # h => pc'[g] = pc[g]
        BY <2>1, <3>1 DEF Receive, Decide, TypeOK
      <4>. QED BY <2>1, <4>2, <4>3 DEF Receive, FirstRuleInv, Cached, TypeOK
    <3>2. CASE ~Cached(Home[s])
      BY <2>1, <3>2 DEF Receive, FirstRuleInv, Cached, TypeOK
    <3>. QED BY <3>1, <3>2
  <2>2. ASSUME NEW h \in Handlers, QueryRules(h) PROVE FirstRuleInv'
    <3>1. Begins(Listed(Home[event[h]]), rules[1].body.hits)
      BY ListedBegins
    <3>. QED BY <2>2, <3>1 DEF QueryRules, Move, FirstRuleInv, Cached, TypeOK
  <2>3. ASSUME NEW h \in Handlers, FillCache(h) PROVE FirstRuleInv'
    <3>1. Begins(listing[h], rules[1].body.hits)
      BY <2>3 DEF FillCache, FirstRuleInv
    <3>2. event[h] \in rules[1].body.hits =>
            FirstHitIs(listing[h], event[h], "ignore")
      BY <3>1, FirstRuleDecides
    <3>3. event[h] \in rules[1].body.hits => pc'[h] # "insert"
      BY <2>3, <3>2 DEF FillCache, Decide, TypeOK
    <3>4. pc'[h] # "fill" /\ \A g \in Handlers : g # h => pc'[g] = pc[g]
      BY <2>3 DEF FillCache, Decide, TypeOK
    <3>5. \A c \in Clusters :
            Cached(c)' => Begins(cache'[c].rules, rules[1].body.hits)
      BY <2>3, <3>1 DEF FillCache, FirstRuleInv, Cached, TypeOK
    <3>6. \A g \in Handlers : g # h => listing'[g] = listing[g]
      BY <2>3 DEF FillCache, TypeOK
    <3>. QED BY <2>3, <3>3, <3>4, <3>5, <3>6 DEF FillCache, FirstRuleInv
  <2>4. ASSUME NEW h \in Handlers, InsertLog(h) PROVE FirstRuleInv'
    BY <2>4 DEF InsertLog, Move, FirstRuleInv, Cached, TypeOK
  <2>5. ASSUME NEW h \in Handlers, ReadSettings(h) PROVE FirstRuleInv'
    BY <2>5 DEF ReadSettings, Move, FirstRuleInv, Cached, TypeOK
  <2>6. ASSUME NEW h \in Handlers, ReadLastMail(h) PROVE FirstRuleInv'
    <3>1. \E to \in {"mail", "idle"} : pc' = [pc EXCEPT ![h] = to]
      BY <2>6 DEF ReadLastMail, Move
    <3>. QED BY <2>6, <3>1 DEF ReadLastMail, FirstRuleInv, Cached, TypeOK
  <2>7. ASSUME NEW h \in Handlers, NEW r \in Recipients,
               SendMail(h, r) \/ MailFails(h, r)
        PROVE FirstRuleInv'
    BY <2>7 DEF SendMail, MailFails, AfterMail, Move, FirstRuleInv, Cached,
                TypeOK
  <2>8. ASSUME NEW h \in Handlers, RecordMail(h) PROVE FirstRuleInv'
    BY <2>8 DEF RecordMail, Move, FirstRuleInv, Cached, TypeOK
  <2>9. ASSUME NEW h \in Handlers, RequestFails(h) PROVE FirstRuleInv'
    BY <2>9 DEF RequestFails, FirstRuleInv, Cached, TypeOK
  <2>10. CASE Restart
    BY <2>10 DEF Restart, Empty, FirstRuleInv, Cached, TypeOK
  <2>11. ASSUME NEW body \in Bodies, CreateRule(body) PROVE FirstRuleInv'
    BY <2>11 DEF CreateRule, othersThanRules, FirstRuleInv, Cached, TypeOK
  <2>12. ASSUME NEW i, NEW body \in Bodies, UpdateRule(i, body)
         PROVE FirstRuleInv'
    BY <1>0, <2>12 DEF UpdateRule, othersThanRules, FirstRuleInv, Cached, TypeOK
  <2>13. ASSUME NEW i, DeleteRule(i) PROVE FirstRuleInv'
    BY <1>0, <2>13 DEF DeleteRule, othersThanRules, FirstRuleInv, Cached, TypeOK
  <2>14. ASSUME NEW c \in Clusters, NEW severe, SaveSettings(c, severe)
         PROVE FirstRuleInv'
    BY <2>14 DEF SaveSettings, FirstRuleInv, Cached, TypeOK
  <2>15. CASE Tick
    <3>1. \A c \in Clusters : Cached(c)' => Cached(c) /\ cache'[c].rules = cache[c].rules
      BY <2>15 DEF Tick, Aged, Empty, Cached, TypeOK
    <3>. QED BY <2>15, <3>1 DEF Tick, FirstRuleInv
  <2>16. CASE UNCHANGED vars
    BY <2>16 DEF vars, FirstRuleInv, Cached
  <2>. QED
    BY <2>1, <2>2, <2>3, <2>4, <2>5, <2>6, <2>7, <2>8, <2>9, <2>10, <2>11,
       <2>12, <2>13, <2>14, <2>15, <2>16 DEF Next, Handle
<1>3. FirstRuleInv => FirstRuleHolds
  BY DEF FirstRuleInv, FirstRuleHolds
<1>. QED BY <1>1, <1>2, <1>3, TypeCorrect, PTL DEF Spec

-----------------------------------------------------------------------------
(* The safety half of RulesTakeEffect *)

(* What the caches hold, and what requests are about to put into them, are *)
(* the rules as they are.                                                  *)
UpToDate ==
  /\ \A c \in Clusters : Current(c)
  /\ \A h \in Handlers, c \in Clusters :
       pc[h] = "fill" /\ Home[event[h]] = c => listing[h] = Listed(c)

LEMMA ListedStays ==
  ASSUME UNCHANGED rules
  PROVE  \A c : Listed(c)' = Listed(c)
BY DEF Listed

LEMMA DecideLeaves ==
  ASSUME TypeOK, NEW h \in Handlers, NEW s, NEW list, Decide(h, s, list)
  PROVE  /\ pc'[h] # "fill"
         /\ \A g \in Handlers \ {h} : pc'[g] = pc[g]
BY DecideType

(* Steps that leave the caches alone and begin no "fill".                  *)
LEMMA QuietStaysUpToDate ==
  ASSUME UpToDate, UNCHANGED <<rules, cache>>,
         \A h \in Handlers : pc'[h] = "fill" =>
           pc[h] = "fill" /\ event'[h] = event[h] /\ listing'[h] = listing[h]
  PROVE  UpToDate'
<1>1. \A c : Listed(c)' = Listed(c)
  BY ListedStays
<1>2. \A c \in Clusters : Current(c)'
  BY <1>1 DEF UpToDate, Current, Cached
<1>. QED BY <1>1, <1>2 DEF UpToDate

LEMMA UpToDateStep ==
  ASSUME TypeOK, UpToDate, [Next]_vars, UNCHANGED rules
  PROVE  UpToDate'
<1>. USE FalcoAssumption DEF adminVars, requestVars
<1>0. \A c : Listed(c)' = Listed(c)
  BY ListedStays
<1>1. ASSUME NEW h \in Handlers, NEW s \in Signatures, Receive(h, s) PROVE UpToDate'
  <2>1. /\ UNCHANGED <<cache, listing>> /\ event' = [event EXCEPT ![h] = s]
        /\ pc[h] = "idle"
    BY <1>1 DEF Receive
  <2>2. pc'[h] # "fill" /\ \A g \in Handlers \ {h} : pc'[g] = pc[g]
    <3>1. CASE Decide(h, s, cache[Home[s]].rules)
      BY <3>1, DecideLeaves
    <3>2. CASE pc' = [pc EXCEPT ![h] = "query"]
      BY <3>2 DEF TypeOK
    <3>. QED BY <1>1, <3>1, <3>2 DEF Receive
  <2>3. \A g \in Handlers \ {h} : event'[g] = event[g]
    BY <2>1 DEF TypeOK
  <2>. QED BY <2>1, <2>2, <2>3, QuietStaysUpToDate
<1>2. ASSUME NEW h \in Handlers, QueryRules(h) PROVE UpToDate'
  <2>1. /\ UNCHANGED <<cache, event>>
        /\ listing'[h] = Listed(Home[event[h]])
        /\ \A g \in Handlers \ {h} : pc'[g] = pc[g] /\ listing'[g] = listing[g]
    BY <1>2 DEF QueryRules, Move, TypeOK
  <2>2. \A c \in Clusters : Current(c)'
    BY <1>0, <2>1 DEF UpToDate, Current, Cached
  <2>3. ASSUME NEW c \in Clusters, Home[event[h]] = c PROVE listing'[h] = Listed(c)'
    BY <1>0, <2>1, <2>3
  <2>. QED BY <1>0, <2>1, <2>2, <2>3 DEF UpToDate
<1>3. ASSUME NEW h \in Handlers, FillCache(h) PROVE UpToDate'
  <2>1. PICK d \in Clusters : d = Home[event[h]]
    BY DEF TypeOK
  <2>2. /\ pc[h] = "fill" /\ UNCHANGED event
        /\ cache'[d].rules = listing[h]
        /\ \A c \in Clusters \ {d} : cache'[c] = cache[c]
        /\ \A g \in Handlers \ {h} : listing'[g] = listing[g]
    BY <1>3, <2>1 DEF FillCache, TypeOK
  <2>3. listing[h] = Listed(d)
    BY <2>1, <2>2 DEF UpToDate
  <2>4. pc'[h] # "fill" /\ \A g \in Handlers \ {h} : pc'[g] = pc[g]
    BY <1>3, DecideLeaves DEF FillCache
  <2>5. \A c \in Clusters : Current(c)'
    BY <1>0, <2>2, <2>3 DEF UpToDate, Current, Cached
  <2>. QED BY <1>0, <2>2, <2>4, <2>5 DEF UpToDate
<1>4. ASSUME NEW h \in Handlers,
             \/ InsertLog(h) \/ ReadSettings(h) \/ ReadLastMail(h) \/ RecordMail(h)
             \/ \E r \in Recipients : SendMail(h, r) \/ MailFails(h, r)
      PROVE  UpToDate'
  <2>1. UNCHANGED <<cache, event, listing>>
    BY <1>4 DEF InsertLog, ReadSettings, ReadLastMail, RecordMail, SendMail, MailFails
  <2>2. \A g \in Handlers : pc'[g] = "fill" => pc[g] = "fill"
    BY <1>4 DEF InsertLog, ReadSettings, ReadLastMail, RecordMail, SendMail, MailFails,
       AfterMail, Move, TypeOK
  <2>. QED BY <2>1, <2>2, QuietStaysUpToDate
<1>5. ASSUME NEW h \in Handlers, RequestFails(h) PROVE UpToDate'
  <2>1. /\ UNCHANGED <<cache, event>> /\ pc'[h] = "idle"
        /\ \A g \in Handlers \ {h} : pc'[g] = pc[g] /\ listing'[g] = listing[g]
    BY <1>5 DEF RequestFails, TypeOK
  <2>. QED BY <2>1, QuietStaysUpToDate
<1>6. CASE Tick
  <2>1. ASSUME NEW c \in Clusters, Cached(c)'
        PROVE  Cached(c) /\ cache'[c].rules = cache[c].rules
    <3>1. cache'[c] = Aged(cache[c]) /\ cache[c].age \in 0 .. CacheTTL
      BY <1>6 DEF Tick, TypeOK
    <3>. QED BY <2>1, <3>1 DEF Aged, Empty, Cached
  <2>2. UNCHANGED <<pc, event, listing>>
    BY <1>6 DEF Tick
  <2>3. \A c \in Clusters : Current(c)'
    BY <1>0, <2>1 DEF UpToDate, Current
  <2>. QED BY <1>0, <2>2, <2>3 DEF UpToDate
<1>7. CASE Restart
  <2>1. \A c \in Clusters : ~Cached(c)'
    BY <1>7 DEF Restart, Cached, Empty
  <2>2. \A h \in Handlers : pc'[h] = "idle"
    BY <1>7 DEF Restart
  <2>. QED BY <2>1, <2>2 DEF UpToDate, Current
<1>8. CASE UNCHANGED <<cache, pc, event, listing>>
  BY <1>8, QuietStaysUpToDate
<1>9. \/ UNCHANGED <<cache, pc, event, listing>> \/ Tick \/ Restart
      \/ \E h \in Handlers :
           \/ \E s \in Signatures : Receive(h, s)
           \/ Handle(h) \/ RequestFails(h)
           \/ \E r \in Recipients : MailFails(h, r)
  BY DEF Next, CreateRule, UpdateRule, DeleteRule, SaveSettings, othersThanRules, vars
<1>. QED BY <1>1, <1>2, <1>3, <1>4, <1>5, <1>6, <1>7, <1>9, <1>8 DEF Handle

(* A listing of rules goes stale by a change of the rules and in no other  *)
(* way: from a moment at which the caches, and the requests that are about *)
(* to fill them, know the rules as they are, every request decides by the  *)
(* rules as long as nobody changes them, however requests overlap, slow    *)
(* ones fill the caches after faster ones, entries expire and the process  *)
(* restarts.                                                               *)
THEOREM OnlyEditsMakeStale ==
  Spec => [](UpToDate /\ [][UNCHANGED rules]_vars => [](\A c \in Clusters : Current(c)))
<1>1. TypeOK /\ UpToDate /\ [Next]_vars /\ [UNCHANGED rules]_vars => UpToDate'
  <2>1. [UNCHANGED rules]_vars => UNCHANGED rules
    BY DEF vars, adminVars
  <2>. QED BY <2>1, UpToDateStep
<1>2. UpToDate => \A c \in Clusters : Current(c)
  BY DEF UpToDate
<1>. QED BY <1>1, <1>2, TypeCorrect, PTL DEF Spec

-----------------------------------------------------------------------------
(* A request that is mailing an anomaly                                    *)
Mailing(h) == pc[h] \in {"mail", "record"}

(* ... has everyone before it who has not got a mail yet,                  *)
MailsTheRest(h) ==
  faults = 0 /\ Mailing(h) => Recipients \ inbox[event[h]] \subseteq todo[h]

(* and an anomaly that is on record as mailed reaches everyone.            *)
RecordedIsMailed ==
  faults = 0 =>
    \A s \in Signatures : mails[s] # {} =>
      \/ inbox[s] = Recipients
      \/ \E h \in Handlers : Mailing(h) /\ event[h] = s

MailInv == RecordedIsMailed /\ \A h \in Handlers : MailsTheRest(h)

(* A step that mails and records nothing                                   *)
LEMMA QuietKeepsMails ==
  ASSUME TypeOK, MailInv, faults' = 0 => faults = 0, UNCHANGED inbox,
         \A s \in Signatures : mails'[s] # {} => mails[s] # {},
         faults' = 0 => \A h \in Handlers : Mailing(h) =>
           Mailing(h)' /\ event'[h] = event[h],
         \A h \in Handlers : Mailing(h)' =>
           \/ Mailing(h) /\ event'[h] = event[h] /\ todo'[h] = todo[h]
           \/ todo'[h] = Recipients
  PROVE  MailInv'
<1>1. RecordedIsMailed'
  BY DEF MailInv, RecordedIsMailed
<1>2. \A h \in Handlers : MailsTheRest(h)'
  BY DEF MailInv, MailsTheRest
<1>. QED BY <1>1, <1>2 DEF MailInv

LEMMA MailStep ==
  ASSUME TypeOK, MailInv, [Next]_vars
  PROVE  MailInv'
<1>. USE DEF adminVars, requestVars
<1>0. MaxFaults \in Nat /\ faults \in Nat
  BY FalcoAssumption DEF TypeOK
<1>1. ASSUME NEW h \in Handlers, NEW s \in Signatures, Receive(h, s)
      PROVE  MailInv'
  <2>1. /\ pc[h] = "idle" /\ pc'[h] \in {"query", "idle", "insert"}
        /\ \A g \in Handlers \ {h} : pc'[g] = pc[g] /\ event'[g] = event[g]
    BY <1>1, DecideType DEF Receive, TypeOK
  <2>2. UNCHANGED <<faults, inbox, mails, todo>>
    BY <1>1 DEF Receive
  <2>. QED BY <2>1, <2>2, QuietKeepsMails DEF Mailing
<1>2. ASSUME NEW h \in Handlers, QueryRules(h) \/ InsertLog(h) \/ ReadSettings(h)
      PROVE  MailInv'
  <2>1. /\ ~Mailing(h) /\ ~Mailing(h)'
        /\ \A g \in Handlers \ {h} : pc'[g] = pc[g]
    BY <1>2 DEF QueryRules, InsertLog, ReadSettings, Move, Mailing, TypeOK
  <2>2. UNCHANGED <<faults, inbox, mails, todo, event>>
    BY <1>2 DEF QueryRules, InsertLog, ReadSettings
  <2>. QED BY <2>1, <2>2, QuietKeepsMails DEF Mailing
<1>3. ASSUME NEW h \in Handlers, FillCache(h) PROVE MailInv'
  <2>1. Decide(h, event[h], listing[h])
    BY <1>3 DEF FillCache
  <2>2. /\ pc[h] = "fill" /\ pc'[h] \in {"idle", "insert"}
        /\ \A g \in Handlers \ {h} : pc'[g] = pc[g]
    BY <1>3, <2>1, DecideType DEF FillCache
  <2>3. UNCHANGED <<faults, inbox, mails, todo, event>>
    BY <1>3 DEF FillCache
  <2>. QED BY <2>2, <2>3, QuietKeepsMails DEF Mailing
<1>4. ASSUME NEW h \in Handlers, ReadLastMail(h) PROVE MailInv'
  <2>1. /\ pc[h] = "last" /\ pc'[h] \in {"mail", "idle"}
        /\ \A g \in Handlers \ {h} : pc'[g] = pc[g] /\ todo'[g] = todo[g]
        /\ pc'[h] = "mail" => todo'[h] = Recipients
    BY <1>4 DEF ReadLastMail, Move, TypeOK
  <2>2. UNCHANGED <<faults, inbox, mails, event>>
    BY <1>4 DEF ReadLastMail
  <2>. QED BY <2>1, <2>2, QuietKeepsMails DEF Mailing
<1>5. ASSUME NEW h \in Handlers, NEW r \in Recipients, SendMail(h, r)
      PROVE  MailInv'
  <2>1. /\ Mailing(h) /\ Mailing(h)'
        /\ todo'[h] = todo[h] \ {r}
        /\ inbox'[event[h]] = inbox[event[h]] \cup {r}
        /\ \A g \in Handlers \ {h} : pc'[g] = pc[g] /\ todo'[g] = todo[g]
    BY <1>5 DEF SendMail, Move, Mailing, TypeOK
  <2>2. /\ UNCHANGED <<faults, mails, event>>
        /\ \A s \in Signatures : inbox[s] \subseteq inbox'[s] /\ inbox'[s] \subseteq Recipients
    BY <1>5 DEF SendMail, TypeOK
  <2>3. RecordedIsMailed'
    <3>1. \A g \in Handlers : Mailing(g) => Mailing(g)' /\ event'[g] = event[g]
      BY <2>1, <2>2 DEF Mailing
    <3>2. \A s \in Signatures : inbox[s] = Recipients => inbox'[s] = Recipients
      BY <2>2
    <3>. QED BY <2>2, <3>1, <3>2 DEF MailInv, RecordedIsMailed
  <2>4. \A g \in Handlers : MailsTheRest(g)'
    BY <2>1, <2>2 DEF MailInv, MailsTheRest, Mailing, TypeOK
  <2>. QED BY <2>3, <2>4 DEF MailInv
<1>6. ASSUME NEW h \in Handlers, RecordMail(h) PROVE MailInv'
  <2>1. /\ pc[h] = "record"
        /\ pc'[h] = IF todo[h] = {} THEN "idle" ELSE "mail"
        /\ \A g \in Handlers \ {h} : pc'[g] = pc[g]
        /\ \A s \in Signatures \ {event[h]} : mails'[s] = mails[s]
        /\ UNCHANGED <<faults, inbox, event, todo>>
    BY <1>6 DEF RecordMail, Move, TypeOK
  <2>2. faults = 0 /\ todo[h] = {} => inbox[event[h]] = Recipients
    BY <2>1 DEF MailInv, MailsTheRest, Mailing, TypeOK
  <2>3. todo[h] # {} => Mailing(h)'
    BY <2>1 DEF Mailing
  <2>4. RecordedIsMailed'
    BY <2>1, <2>2, <2>3 DEF MailInv, RecordedIsMailed, Mailing
  <2>5. \A g \in Handlers : MailsTheRest(g)'
    BY <2>1 DEF MailInv, MailsTheRest, Mailing
  <2>. QED BY <2>4, <2>5 DEF MailInv
<1>7. CASE faults' = faults + 1
  BY <1>0, <1>7 DEF MailInv, RecordedIsMailed, MailsTheRest
<1>8. CASE Tick
  <2>1. \A s \in Signatures : mails'[s] # {} => mails[s] # {}
    BY <1>8 DEF Tick
  <2>. QED BY <1>8, <2>1, QuietKeepsMails DEF Tick, Mailing
<1>9. CASE UNCHANGED <<faults, inbox, mails, event, todo, pc>>
  BY <1>9, QuietKeepsMails DEF Mailing
<1>10. \/ UNCHANGED <<faults, inbox, mails, event, todo, pc>> \/ Tick
       \/ faults' = faults + 1
       \/ \E h \in Handlers : Handle(h) \/ \E s \in Signatures : Receive(h, s)
  BY DEF Next, CreateRule, UpdateRule, DeleteRule, SaveSettings, othersThanRules,
     vars, Restart, RequestFails, MailFails
<1>. QED BY <1>1, <1>2, <1>3, <1>4, <1>5, <1>6, <1>7, <1>8, <1>9, <1>10 DEF Handle

(* Unless something has failed, an anomaly that is on record as mailed,    *)
(* which keeps later requests silent, has been mailed to every recipient   *)
(* or is being mailed to the rest of them: among overlapping requests none *)
(* is silent about what another one does not go on to tell.                *)
THEOREM NobodyIsLeftOut == Spec => []RecordedIsMailed
<1>1. Init => MailInv
  BY DEF Init, MailInv, RecordedIsMailed, MailsTheRest, Mailing
<1>2. TypeOK /\ MailInv /\ [Next]_vars => MailInv'
  BY MailStep
<1>3. MailInv => RecordedIsMailed
  BY DEF MailInv
<1>. QED BY <1>1, <1>2, <1>3, TypeCorrect, PTL DEF Spec
=============================================================================
