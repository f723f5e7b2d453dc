------------------------ MODULE InstrumentationProofs ------------------------
(***************************************************************************)
(* Proofs about the hooks of the probes: what switches them (Appmetrics),  *)
(* for any probes and names, and how they are woven into a module that is  *)
(* required (Loader), for any of the modules and any number of requires.   *)
(***************************************************************************)
EXTENDS Appmetrics, Loader, TLAPS

-----------------------------------------------------------------------------
(* Appmetrics: what restarts and calls for other types cannot change.      *)

LEMMA SwitchInvInit == Init => SwitchInv
<1> SUFFICES ASSUME Init PROVE SwitchInv
  OBVIOUS
<1>1. TypeOK
  <2>1. /\ metrics \in [Probe -> BOOLEAN]
        /\ requests \in [Probe -> BOOLEAN]
        /\ askedMetrics \in [Probe -> Asked]
    BY DEF Init, Asked
  <2>2. starts \in 0..MaxStarts
    BY AppmetricsConstants DEF Init
  <2> QED BY Zenon, <2>1, <2>2 DEF Init, TypeOK, Asked
<1>2. RequestsAsAsked
  BY DEF Init, RequestsAsAsked
<1>3. \A p \in Probe : askedMetrics[p] # "none" => started
  BY DEF Init
<1> QED BY <1>1, <1>2, <1>3 DEF Init, SwitchInv

LEMMA SwitchInvStep == SwitchInv /\ [Next]_vars => SwitchInv'
<1> SUFFICES ASSUME SwitchInv, [Next]_vars PROVE SwitchInv'
  OBVIOUS
<1> USE AppmetricsConstants DEF SwitchInv, TypeOK, Asked, RequestsAsAsked
<1>1. ASSUME StartAgentAndProbes, api' \in BOOLEAN
      PROVE  SwitchInv'
  <2>1. /\ metrics' \in [Probe -> BOOLEAN]
        /\ requests' \in [Probe -> BOOLEAN]
    BY <1>1 DEF StartAgentAndProbes, SwitchMetrics, SwitchRequests
  <2>2. \A p \in Probe : requests'[p] <=> requests[p] \/ requestsEnabled
    BY <1>1 DEF StartAgentAndProbes, SwitchRequests
  <2> QED BY <1>1, <2>1, <2>2 DEF StartAgentAndProbes, asked
<1>2. CASE Start
  BY <1>1, <1>2 DEF Start
<1>3. CASE Stop
  BY <1>3 DEF Stop, switches, asked
<1>4. CASE Monitor
  <2>1. CASE StartAgentAndProbes /\ api' = TRUE
    BY <1>1, <1>4, <2>1 DEF Monitor
  <2>2. CASE UNCHANGED <<running, api, started, requestsEnabled, switches,
                         starts, asked>>
    BY <1>4, <2>2 DEF Monitor, switches, asked
  <2> QED BY <1>4, <2>1, <2>2 DEF Monitor
<1>5. ASSUME NEW type \in Type, Enable(type)
      PROVE  SwitchInv'
  BY <1>5 DEF Enable, SwitchMetrics, AskMetrics
<1>6. ASSUME NEW type \in Type, Disable(type)
      PROVE  SwitchInv'
  BY <1>6 DEF Disable, SwitchMetrics, AskMetrics
<1>7. ASSUME NEW excludeModules \in SUBSET Type, NEW enabled \in BOOLEAN,
             ConfigureRequests(excludeModules, enabled)
      PROVE  SwitchInv'
  BY <1>7 DEF ConfigureRequests, Ask
<1>8. CASE DisableRequests
  BY <1>8 DEF DisableRequests, SwitchRequests, Ask
<1>9. CASE UNCHANGED vars
  BY <1>9 DEF vars, switches, asked
<1> QED BY <1>2, <1>3, <1>4, <1>5, <1>6, <1>7, <1>8, <1>9 DEF Next

(* The invariant holds for any probes and names, ...                       *)
THEOREM SwitchInvariant == Spec => []SwitchInv
<1>1. Init => SwitchInv
  BY SwitchInvInit
<1>2. SwitchInv /\ [Next]_vars => SwitchInv'
  BY SwitchInvStep
<1> QED BY <1>1, <1>2, PTL DEF Spec

(* ... and so requests are tracked as they were last asked for, across     *)
(* restarts.                                                               *)
THEOREM RequestsFollow == Spec => []RequestsAsAsked
<1>1. SwitchInv => RequestsAsAsked
  BY DEF SwitchInv
<1> QED BY <1>1, SwitchInvariant, PTL

-----------------------------------------------------------------------------
LEMMA OnStep ==
    ASSUME SwitchInv, EnabledStaysOn, [Next]_vars
    PROVE  EnabledStaysOn'
<1> USE AppmetricsConstants DEF SwitchInv, TypeOK, EnabledStaysOn
<1>1. CASE StartAgentAndProbes
  BY <1>1 DEF StartAgentAndProbes, SwitchMetrics
<1>2. CASE UNCHANGED <<started, metrics, askedMetrics>>
  BY <1>2
<1>3. ASSUME NEW type \in Type, Enable(type)
      PROVE  EnabledStaysOn'
  BY <1>3 DEF Enable, SwitchMetrics, AskMetrics, Named
<1>4. ASSUME NEW type \in Type, Disable(type)
      PROVE  EnabledStaysOn'
  BY <1>4 DEF Disable, SwitchMetrics, AskMetrics, Named
<1> QED BY <1>1, <1>2, <1>3, <1>4
        DEF Next, Start, Stop, Monitor, ConfigureRequests, DisableRequests,
            vars, switches, asked

(* The metrics of a type that nobody disabled stay on once the probes have *)
(* been started, for any probes and names.                                 *)
THEOREM MetricsStayOn == Spec => []EnabledStaysOn
<1>1. Init => SwitchInv /\ EnabledStaysOn
  BY SwitchInvInit DEF Init, EnabledStaysOn
<1>2. SwitchInv /\ EnabledStaysOn /\ [Next]_vars
         => SwitchInv' /\ EnabledStaysOn'
  BY SwitchInvStep, OnStep
<1> QED BY <1>1, <1>2, PTL DEF Spec

-----------------------------------------------------------------------------
(* What start() switches on again was switched on before: the first call   *)
(* comes before any wish counts.                                           *)
OffInv == OffUntilRestart /\ (started => starts > 0)

LEMMA OffStep ==
    ASSUME SwitchInv, OffInv, [Next]_vars
    PROVE  OffInv'
<1>0. /\ starts \in Nat /\ metrics \in [Probe -> BOOLEAN]
      /\ askedMetrics \in [Probe -> Asked]
      /\ \A p \in Probe : askedMetrics[p] # "none" => started
  BY AppmetricsConstants DEF SwitchInv, TypeOK
<1> USE DEF OffInv, OffUntilRestart
<1>1. CASE StartAgentAndProbes
  <2>1. starts' = starts + 1 /\ askedMetrics' = askedMetrics
    BY <1>1 DEF StartAgentAndProbes, asked
  <2>2. starts' < 2 => \A p \in Probe : askedMetrics[p] = "none"
    BY <1>0, <2>1
  <2> QED BY <1>0, <2>1, <2>2
<1>2. CASE UNCHANGED <<started, starts, metrics, askedMetrics>>
  BY <1>2
<1>3. ASSUME NEW type \in Type, Enable(type)
      PROVE  OffInv'
  BY <1>0, <1>3 DEF Enable, SwitchMetrics, AskMetrics, Named
<1>4. ASSUME NEW type \in Type, Disable(type)
      PROVE  OffInv'
  BY <1>0, <1>4 DEF Disable, SwitchMetrics, AskMetrics, Named
<1> QED BY <1>1, <1>2, <1>3, <1>4
        DEF Next, Start, Stop, Monitor, ConfigureRequests, DisableRequests,
            vars, switches, asked

(* What was disabled is not collected until start() is called again,       *)
(* whatever is called for other types, for any probes and names.           *)
THEOREM DisabledStaysOff == Spec => []OffUntilRestart
<1>1. Init => SwitchInv /\ OffInv
  BY SwitchInvInit DEF Init, OffInv, OffUntilRestart
<1>2. SwitchInv /\ OffInv /\ [Next]_vars => SwitchInv' /\ OffInv'
  BY SwitchInvStep, OffStep
<1> QED BY <1>1, <1>2, PTL DEF Spec, OffInv

-----------------------------------------------------------------------------
(* Loader: what require() gives is instrumented once.                      *)

Juggler == "loopback-datasource-juggler"

(* A probe makes at most one mark, and the probes of a module that weave   *)
(* into the exports make one each, but for that of the juggler.            *)
LEMMA MarkFacts ==
    ASSUME NEW m \in Module, NEW p \in Probes(m)
    PROVE  /\ Mark(m, p) \in SUBSET {"dd", "probe", "outbound"}
           /\ p \in Weaver
           /\ Mark(m, p) = {} \/ \E x : Mark(m, p) = {x}
           /\ ~GivesNew(m, p) /\ m # Juggler => Mark(m, p) # {}
           /\ GivesNew(m, p) => "dd" \notin Mark(m, p)
<1>1. p \in Weaver
  BY DEF Weaver
<1>2. \/ p = m /\ m \in Package
      \/ p = "outbound" /\ m \in Outbound
      \/ p = "trace" /\ m \in File
  BY LoaderConstants DEF Probes, File
<1>3. ~GivesNew(m, p) /\ m # Juggler => m \notin LeavesNoMark
  BY <1>2 DEF GivesNew, LeavesNoMark, Juggler, Package, Outbound
<1>4. GivesNew(m, p) => m \in LeavesNoMark \cup HasOwnMark
  BY DEF GivesNew, LeavesNoMark, HasOwnMark
<1> QED BY <1>1, <1>3, <1>4 DEF Mark

(* The mark the patch looks at is that of every probe of the module.       *)
LEMMA DDMarks ==
    ASSUME NEW m \in Module, NEW p \in Probes(m), NEW q \in Probes(m),
           "dd" \in Mark(m, p)
    PROVE  Mark(m, q) = {"dd"}
BY DEF Mark

(* A probe finds its own mark, and not that of another probe.              *)
LEMMA FoundFacts ==
    ASSUME NEW m \in Module, NEW p \in Matching(m)
    PROVE  /\ p \in Probes(m)
           /\ Mark(m, p) \cap Found(m, p) = {} <=>
                 Mark(m, p) \cap marks[m] = {}
<1>1. p \in Probes(m)
  BY DEF Matching
<1>2. CASE p # "outbound" /\ "outbound" \in Matching(m)
  <2>1. m \in Outbound /\ p = m
    BY <1>1, <1>2, LoaderConstants
       DEF Matching, Probes, Outbound, Package, File
  <2>2. Mark(m, p) = {"probe"} /\ Mark(m, "outbound") = {"outbound"}
    BY <2>1, <1>2 DEF Mark, Outbound, LeavesNoMark, HasOwnMark
  <2> QED BY <1>1, <1>2, <2>2 DEF Found
<1>3. CASE ~(p # "outbound" /\ "outbound" \in Matching(m))
  BY <1>1, <1>3 DEF Found
<1> QED BY <1>2, <1>3

-----------------------------------------------------------------------------
LEMMA LoaderInvInit == LoaderInit => LoaderInv
<1> SUFFICES ASSUME LoaderInit PROVE LoaderInv
  OBVIOUS
<1>1. \A m \in Module : /\ marks[m] = {} /\ required[m] = 0
                        /\ given[m] = NotRequired
                        /\ \A p \in Weaver : woven[m][p] = 0
  BY DEF LoaderInit
<1>2. LoaderTypeOK
  <2>1. woven \in [Module -> [Weaver -> 0..MaxRequires]]
    BY LoaderConstants DEF LoaderInit
  <2>2. /\ marks \in [Module -> SUBSET {"dd", "probe", "outbound"}]
        /\ tracing \in BOOLEAN
    BY DEF LoaderInit
  <2>5. required \in [Module -> 0..MaxRequires]
    BY LoaderConstants DEF LoaderInit
  <2>3. NotRequired \in [what : {"none", "nothing", "exports", "new"},
                         by : SUBSET Weaver, due : SUBSET Weaver]
    BY DEF NotRequired
  <2>4. given \in [Module -> [what : {"none", "nothing", "exports", "new"},
                              by : SUBSET Weaver, due : SUBSET Weaver]]
    BY <2>3 DEF LoaderInit
  <2>6. outlived = {}
    BY DEF LoaderInit
  <2> QED BY <2>1, <2>2, <2>4, <2>5, <2>6 DEF LoaderTypeOK
<1>3. MarksTell
  <2> SUFFICES ASSUME NEW m \in Module
               PROVE  /\ \A p \in Weaver : woven[m][p] <= required[m]
                      /\ \A p \in Probes(m) : p \in Weaver
                      /\ \A p \in Probes(m) :
                            Mark(m, p) # {} => ~(Mark(m, p) \subseteq marks[m])
    BY <1>1 DEF MarksTell
  <2> QED BY <1>1, MarkFacts
<1>4. InstrumentedOnce
  BY <1>1 DEF InstrumentedOnce, NotRequired
<1> QED BY <1>2, <1>3, <1>4 DEF LoaderInv

-----------------------------------------------------------------------------
(* What is asked of one module.                                            *)
ModuleInv(m) ==
    /\ marks[m] \subseteq UNION {Mark(m, p) : p \in Probes(m)}
    /\ m \in File /\ marks[m] # {} => tracing
    /\ \A p \in Weaver : woven[m][p] <= required[m]
    /\ \A p \in Weaver : p \notin Probes(m) \/ GivesNew(m, p) =>
                         woven[m][p] = 0
    /\ \A p \in Probes(m) : Mark(m, p) # {} /\ ~GivesNew(m, p) =>
          /\ Mark(m, p) \subseteq marks[m] => woven[m][p] > 0
          /\ m \notin outlived =>
                woven[m][p] = IF Mark(m, p) \subseteq marks[m] THEN 1 ELSE 0

OnceInv(m) ==
    given[m].what \in {"exports", "new"} =>
        \A p \in Weaver :
            /\ p \in given[m].due <=> Measured(m, p) > 0
            /\ m \notin WovenAgain => Measured(m, p) <= 1

LEMMA PerModule ==
    /\ MarksTell <=> \A m \in Module : ModuleInv(m)
    /\ InstrumentedOnce <=> \A m \in Module : OnceInv(m)
BY DEF MarksTell, ModuleInv, InstrumentedOnce, OnceInv

Given == [what : {"none", "nothing", "exports", "new"},
          by : SUBSET Weaver, due : SUBSET Weaver]

(* While the exports are marked, or tracing goes on, every probe of the    *)
(* module matches.                                                         *)
LEMMA MatchingFacts ==
    ASSUME NEW m \in Module, ModuleInv(m)
    PROVE  /\ Matching(m) \subseteq Weaver /\ Matching(m) \subseteq Probes(m)
           /\ \A p \in Probes(m) \ Matching(m) :
                 marks[m] = {} /\ Matching(m) = {}
           /\ m \in File /\ Matching(m) # {} => tracing
BY DEF Matching, ModuleInv, Weaver

LEMMA AttachKeeps ==
    ASSUME LoaderTypeOK, NEW m \in Module, ModuleInv(m), Attach(m),
           required[m] < MaxRequires,
           required' = [required EXCEPT ![m] = @ + 1],
           UNCHANGED <<tracing, outlived>>
    PROVE  /\ marks' \in [Module -> SUBSET {"dd", "probe", "outbound"}]
           /\ woven' \in [Module -> [Weaver -> 0..MaxRequires]]
           /\ given' \in [Module -> Given]
           /\ ModuleInv(m)' /\ OnceInv(m)'
           /\ \A k \in Module \ {m} : UNCHANGED <<marks[k], woven[k], given[k],
                                                  required[k]>>
<1> USE LoaderConstants
<1> DEFINE attaching == {p \in Matching(m) : Mark(m, p) \cap Found(m, p) = {}}
           news == {p \in attaching : GivesNew(m, p)}
           added == UNION {Mark(m, p) : p \in attaching}
<1>1. /\ Matching(m) \subseteq Weaver /\ Matching(m) \subseteq Probes(m)
      /\ \A p \in Probes(m) \ Matching(m) :
            marks[m] = {} /\ Matching(m) = {}
      /\ m \in File /\ Matching(m) # {} => tracing
  BY MatchingFacts
<1>2. \A p \in Matching(m) : p \in attaching <=> Mark(m, p) \cap marks[m] = {}
  BY FoundFacts
<1>3. /\ marks' = [marks EXCEPT ![m] = marks[m] \cup added]
      /\ woven' = [woven EXCEPT ![m] =
                      [p \in Weaver |-> IF p \in attaching \ news
                                        THEN woven[m][p] + 1
                                        ELSE woven[m][p]]]
  BY DEF Attach
<1>4. \/ attaching = {} /\ Gives(m, "nothing", {})
      \/ news # {} /\ Gives(m, "new", news)
      \/ /\ ~(attaching = {} /\ m \in ReturnsNothing) /\ news = {}
         /\ Gives(m, "exports", {})
  BY DEF Attach
<1>5. attaching \subseteq Matching(m) /\ news \subseteq attaching
  OBVIOUS
<1> HIDE DEF attaching, added
<1>6. \A p \in Probes(m) :
          /\ Mark(m, p) \in SUBSET {"dd", "probe", "outbound"}
          /\ p \in Weaver
          /\ Mark(m, p) = {} \/ \E x : Mark(m, p) = {x}
          /\ ~GivesNew(m, p) /\ m # Juggler => Mark(m, p) # {}
  BY MarkFacts
<1>7. added \subseteq {"dd", "probe", "outbound"}
  BY <1>1, <1>5, <1>6 DEF added
<1>8. marks' \in [Module -> SUBSET {"dd", "probe", "outbound"}]
  BY <1>3, <1>7 DEF LoaderTypeOK
<1>9. /\ required[m] \in Nat /\ required'[m] = required[m] + 1
      /\ required'[m] \in 0..MaxRequires
      /\ \A p \in Weaver : woven[m][p] \in Nat /\ woven[m][p] <= required[m]
  BY DEF LoaderTypeOK, ModuleInv
<1>10. \A p \in Weaver : woven'[m][p] = IF p \in attaching \ news
                                       THEN woven[m][p] + 1 ELSE woven[m][p]
  BY <1>3 DEF LoaderTypeOK
<1>11. woven' \in [Module -> [Weaver -> 0..MaxRequires]]
  <2> DEFINE W == [p \in Weaver |-> IF p \in attaching \ news
                                    THEN woven[m][p] + 1 ELSE woven[m][p]]
  <2>1. W \in [Weaver -> 0..MaxRequires]
    BY <1>9
  <2>2. woven' = [woven EXCEPT ![m] = W]
    BY <1>3
  <2> HIDE DEF W
  <2> QED BY <2>1, <2>2 DEF LoaderTypeOK
<1>12. PICK what \in {"nothing", "new", "exports"}, by \in SUBSET news :
          /\ given' = [given EXCEPT ![m] = [what |-> what, by |-> by,
                                            due |-> Matching(m)]]
          /\ what = "nothing" => attaching = {}
          /\ what # "nothing" =>
                /\ by = news
                /\ ~(attaching = {} /\ m \in ReturnsNothing)
  BY <1>4, <1>5 DEF Gives
<1> HIDE DEF news
<1>13. given' \in [Module -> Given]
  <2>1. [what |-> what, by |-> by, due |-> Matching(m)] \in Given
    BY <1>1, <1>5 DEF Given
  <2> QED BY <1>12, <2>1 DEF LoaderTypeOK, Given
<1>14. /\ marks'[m] = marks[m] \cup added
       /\ given'[m] = [what |-> what, by |-> by, due |-> Matching(m)]
  BY <1>3, <1>12 DEF LoaderTypeOK
<1>15. \A p \in news : GivesNew(m, p)
  BY DEF news
<1>16. \A p \in attaching : ~GivesNew(m, p) => p \notin news
  BY <1>15
<1>17. ASSUME NEW p \in Probes(m), ~GivesNew(m, p)
       PROVE  /\ Mark(m, p) # {} =>
                    /\ Mark(m, p) \subseteq marks'[m] => woven'[m][p] > 0
                    /\ m \notin outlived =>
                          woven'[m][p] = IF Mark(m, p) \subseteq marks'[m]
                                         THEN 1 ELSE 0
              /\ p \in Matching(m) <=> woven'[m][p] > 0
              /\ m \notin WovenAgain => woven'[m][p] <= 1
  <2>1. p \in Weaver /\ p \notin news /\ woven[m][p] \in Nat
    BY <1>6, <1>9, <1>15, <1>17
  <2>2. CASE Mark(m, p) = {}
    <3>1. m = Juggler /\ p \in Matching(m)
      BY <1>6, <1>17, <2>2, LoaderConstants
         DEF Matching, Juggler, File
    <3>2. p \in attaching
      BY <1>2, <2>2, <3>1
    <3> QED BY <1>10, <2>1, <2>2, <3>1, <3>2 DEF WovenAgain, Juggler
  <2>3. CASE Mark(m, p) # {}
    <3>1. PICK x : Mark(m, p) = {x}
      BY <1>6, <2>3
    <3>2. /\ x \in marks[m] => woven[m][p] > 0
          /\ m \notin outlived =>
                woven[m][p] = IF x \in marks[m] THEN 1 ELSE 0
      BY <1>17, <3>1 DEF ModuleInv
    <3>3. CASE p \notin Matching(m)
      <4>1. marks[m] = {} /\ marks'[m] = {}
        BY <1>1, <1>5, <1>14, <3>3 DEF added
      <4>2. m \notin outlived
        BY <3>3 DEF Matching, File, WeavesInside, LoaderTypeOK
      <4> QED BY <1>5, <1>10, <2>1, <3>1, <3>2, <3>3, <4>1, <4>2
    <3>4. CASE p \in Matching(m) /\ x \in marks[m]
      <4>1. woven'[m][p] = woven[m][p] /\ x \in marks'[m]
        BY <1>2, <1>10, <1>14, <2>1, <3>1, <3>4
      <4> QED BY <2>1, <3>1, <3>2, <3>4, <4>1 DEF WovenAgain
    <3>5. CASE p \in Matching(m) /\ x \notin marks[m]
      <4>1. p \in attaching
        BY <1>2, <3>1, <3>5
      <4>2. x \in marks'[m]
        BY <1>14, <3>1, <4>1 DEF added
      <4>3. woven'[m][p] = woven[m][p] + 1
        BY <1>10, <2>1, <4>1
      <4> QED BY <2>1, <3>1, <3>2, <3>5, <4>2, <4>3 DEF WovenAgain
    <3> QED BY <3>3, <3>4, <3>5
  <2> QED BY <2>2, <2>3
<1>18. \A p \in Weaver : p \notin Probes(m) \/ GivesNew(m, p) =>
                         woven'[m][p] = 0
  <2> SUFFICES ASSUME NEW p \in Weaver, p \notin Probes(m) \/ GivesNew(m, p)
               PROVE  woven'[m][p] = 0
    OBVIOUS
  <2>1. p \notin attaching \ news
    BY <1>1, <1>5 DEF news
  <2> QED BY <1>10, <2>1 DEF ModuleInv
<1>19. ModuleInv(m)'
  <2>1. marks'[m] \subseteq UNION {Mark(m, p) : p \in Probes(m)}
    BY <1>1, <1>5, <1>14 DEF ModuleInv, added
  <2>2. m \in File /\ marks'[m] # {} => tracing'
    BY <1>1, <1>5, <1>14 DEF ModuleInv, added
  <2>3. \A p \in Weaver : woven'[m][p] <= required'[m]
    BY <1>9, <1>10
  <2> QED BY <1>17, <1>18, <2>1, <2>2, <2>3 DEF ModuleInv
<1>20. OnceInv(m)'
  <2> DEFINE measured(p) == woven'[m][p] + (IF p \in by THEN 1 ELSE 0)
  <2> SUFFICES ASSUME what # "nothing", NEW p \in Weaver
               PROVE  /\ p \in Matching(m) <=> measured(p) > 0
                      /\ m \notin WovenAgain => measured(p) <= 1
    BY <1>14 DEF OnceInv, Measured, WovenAgain
  <2>0. woven'[m][p] \in Nat
    BY <1>9, <1>10
  <2>1. by = news /\ ~(attaching = {} /\ m \in ReturnsNothing)
    BY <1>12
  <2>2. CASE p \notin Probes(m)
    BY <1>1, <1>5, <1>18, <2>1, <2>2
  <2>3. CASE p \in Probes(m) /\ ~GivesNew(m, p)
    BY <1>15, <1>17, <2>0, <2>1, <2>3
  <2>4. CASE p \in Probes(m) /\ GivesNew(m, p)
    <3>1. woven'[m][p] = 0
      BY <1>18, <2>4
    <3>2. p \in Matching(m) => p \in attaching
      <4>1. CASE m = "strong-oracle"
        BY <1>1, <1>5, <2>1, <2>4, <4>1
           DEF Probes, ReturnsNothing, File, Outbound
      <4>2. CASE m # "strong-oracle"
        BY <1>2, <2>4, <4>2 DEF GivesNew, Mark, LeavesNoMark
      <4> QED BY <4>1, <4>2
    <3>3. p \in news <=> p \in Matching(m)
      BY <1>5, <2>4, <3>2 DEF news
    <3> QED BY <2>1, <3>1, <3>3
  <2> QED BY <2>2, <2>3, <2>4
<1>21. \A k \in Module \ {m} : UNCHANGED <<marks[k], woven[k], given[k],
                                           required[k]>>
  BY <1>3, <1>12 DEF LoaderTypeOK
<1> QED BY <1>8, <1>11, <1>13, <1>19, <1>20, <1>21

(* The patch finds its own mark: every probe has woven its hooks.          *)
LEMMA MarkedKeeps ==
    ASSUME LoaderTypeOK, NEW m \in Module, ModuleInv(m), "dd" \in marks[m],
           Gives(m, "exports", {}), required[m] < MaxRequires,
           UNCHANGED <<tracing, marks, woven, outlived>>,
           required' = [required EXCEPT ![m] = @ + 1]
    PROVE  /\ given' \in [Module -> Given]
           /\ ModuleInv(m)' /\ OnceInv(m)'
           /\ \A k \in Module \ {m} : UNCHANGED <<marks[k], woven[k], given[k],
                                                  required[k]>>
<1> USE LoaderConstants
<1>1. PICK q \in Probes(m) : "dd" \in Mark(m, q)
  BY DEF ModuleInv
<1>2. \A p \in Probes(m) : Mark(m, p) = {"dd"}
  BY <1>1, DDMarks
<1>3. \A p \in Probes(m) : ~GivesNew(m, p)
  BY <1>2, MarkFacts
<1>4. Matching(m) = Probes(m) /\ Matching(m) \subseteq Weaver
  BY MatchingFacts
<1>5. /\ required[m] \in Nat /\ required'[m] = required[m] + 1
      /\ \A p \in Weaver : woven[m][p] \in Nat
  BY DEF LoaderTypeOK
<1>6. ModuleInv(m)'
  BY <1>5 DEF ModuleInv
<1>7. given' = [given EXCEPT ![m] = [what |-> "exports", by |-> {},
                                     due |-> Matching(m)]]
  BY DEF Gives
<1>8. given' \in [Module -> Given]
  BY <1>4, <1>7 DEF LoaderTypeOK, Given
<1>9. OnceInv(m)'
  <2> SUFFICES ASSUME NEW p \in Weaver
               PROVE  /\ p \in Matching(m) <=> woven[m][p] > 0
                      /\ m \notin WovenAgain => woven[m][p] <= 1
    BY <1>5, <1>7 DEF OnceInv, Measured, LoaderTypeOK, WovenAgain
  <2>1. CASE p \in Probes(m)
    <3>1. /\ Mark(m, p) # {} /\ Mark(m, p) \subseteq marks[m]
          /\ ~GivesNew(m, p)
      BY <1>2, <1>3, <2>1
    <3>2. woven[m][p] > 0 /\ (m \notin outlived => woven[m][p] = 1)
      BY <2>1, <3>1 DEF ModuleInv
    <3> QED BY <1>4, <1>5, <2>1, <3>2 DEF WovenAgain
  <2>2. CASE p \notin Probes(m)
    BY <1>4, <2>2 DEF ModuleInv
  <2> QED BY <2>1, <2>2
<1>10. \A k \in Module \ {m} : UNCHANGED <<marks[k], woven[k], given[k],
                                           required[k]>>
  BY <1>7 DEF LoaderTypeOK
<1> QED BY <1>6, <1>8, <1>9, <1>10

-----------------------------------------------------------------------------
(* A step leaves what is asked of a module alone when it changes nothing   *)
(* of that module.                                                         *)
LEMMA Frame ==
    ASSUME NEW k \in Module, ModuleInv(k), OnceInv(k), tracing => tracing',
           UNCHANGED <<marks[k], woven[k], given[k], required[k]>>,
           k \in outlived' <=> k \in outlived
    PROVE  ModuleInv(k)' /\ OnceInv(k)'
BY DEF ModuleInv, OnceInv, Measured, WovenAgain

LEMMA LoaderInvStep == LoaderInv /\ [LoaderNext]_loaderVars => LoaderInv'
<1> SUFFICES ASSUME LoaderInv, [LoaderNext]_loaderVars
             PROVE  LoaderInv'
  OBVIOUS
<1>1. LoaderTypeOK /\ \A k \in Module : ModuleInv(k) /\ OnceInv(k)
  BY PerModule DEF LoaderInv
<1>2. ASSUME LoaderTypeOK', \A k \in Module : ModuleInv(k)' /\ OnceInv(k)'
      PROVE  LoaderInv'
  BY <1>2 DEF LoaderInv, MarksTell, InstrumentedOnce, ModuleInv, OnceInv,
              Measured, WovenAgain
<1>3. ASSUME NEW m \in Module, Require(m)
      PROVE  LoaderInv'
  <2>1. /\ required[m] < MaxRequires
        /\ required' = [required EXCEPT ![m] = @ + 1]
        /\ UNCHANGED <<tracing, outlived>>
    BY <1>3 DEF Require
  <2>2. required' \in [Module -> 0..MaxRequires]
    BY <1>1, <2>1, LoaderConstants DEF LoaderTypeOK
  <2>3. CASE "dd" \in marks[m]
    <3>1. Gives(m, "exports", {}) /\ UNCHANGED <<marks, woven>>
      BY <1>3, <2>3 DEF Require
    <3>2. /\ given' \in [Module -> Given]
          /\ ModuleInv(m)' /\ OnceInv(m)'
          /\ \A k \in Module \ {m} : UNCHANGED <<marks[k], woven[k], given[k],
                                                 required[k]>>
      BY <1>1, <2>1, <2>3, <3>1, MarkedKeeps
    <3>3. LoaderTypeOK'
      BY <1>1, <2>1, <2>2, <3>1, <3>2 DEF LoaderTypeOK, Given
    <3>4. ASSUME NEW k \in Module PROVE ModuleInv(k)' /\ OnceInv(k)'
      BY <1>1, <2>1, <3>2, Frame
    <3> QED BY <1>2, <3>3, <3>4
  <2>4. CASE "dd" \notin marks[m]
    <3>1. Attach(m)
      BY <1>3, <2>4 DEF Require
    <3>2. /\ marks' \in [Module -> SUBSET {"dd", "probe", "outbound"}]
          /\ woven' \in [Module -> [Weaver -> 0..MaxRequires]]
          /\ given' \in [Module -> Given]
          /\ ModuleInv(m)' /\ OnceInv(m)'
          /\ \A k \in Module \ {m} : UNCHANGED <<marks[k], woven[k], given[k],
                                                 required[k]>>
      BY <1>1, <2>1, <3>1, AttachKeeps
    <3>3. LoaderTypeOK'
      BY <1>1, <2>1, <2>2, <3>2 DEF LoaderTypeOK, Given
    <3>4. ASSUME NEW k \in Module PROVE ModuleInv(k)' /\ OnceInv(k)'
      BY <1>1, <2>1, <3>2, Frame
    <3> QED BY <1>2, <3>3, <3>4
  <2> QED BY <2>3, <2>4
<1>4. ASSUME NEW m \in Module, DeleteFromCache(m)
      PROVE  LoaderInv'
  <2>1. /\ marks' = [marks EXCEPT ![m] = {}]
        /\ given' = [given EXCEPT ![m] = NotRequired]
        /\ UNCHANGED <<tracing, required>>
        /\ \/ /\ woven' = [woven EXCEPT ![m] = [p \in Weaver |-> 0]]
              /\ outlived' = outlived \ {m}
           \/ /\ m \in WeavesInside
              /\ outlived' = outlived \cup {m}
              /\ UNCHANGED woven
    BY <1>4 DEF DeleteFromCache
  <2>2. /\ marks'[m] = {} /\ given'[m] = NotRequired
        /\ \/ \A p \in Weaver : woven'[m][p] = 0
           \/ m \in outlived' /\ UNCHANGED woven
        /\ required[m] \in Nat
    BY <1>1, <2>1 DEF LoaderTypeOK
  <2>3. LoaderTypeOK'
    <3>1. [p \in Weaver |-> 0] \in [Weaver -> 0..MaxRequires]
      BY LoaderConstants
    <3>2. NotRequired \in Given
      BY DEF NotRequired, Given
    <3>3. woven' \in [Module -> [Weaver -> 0..MaxRequires]]
      BY <1>1, <2>1, <3>1 DEF LoaderTypeOK
    <3>4. outlived' \subseteq Module \cap WeavesInside
      BY <1>1, <2>1, Zenon DEF LoaderTypeOK
    <3> QED BY <1>1, <2>1, <3>2, <3>3, <3>4 DEF LoaderTypeOK, Given
  <2>4. ModuleInv(m)'
    <3>1. \A p \in Probes(m) :
              Mark(m, p) # {} => ~(Mark(m, p) \subseteq marks'[m])
      BY <2>2
    <3>2. \A p \in Probes(m) : p \in Weaver
      BY MarkFacts
    <3>3. CASE \A p \in Weaver : woven'[m][p] = 0
      BY <2>1, <2>2, <3>1, <3>2, <3>3 DEF ModuleInv
    <3>4. CASE m \in outlived' /\ UNCHANGED woven
      BY <1>1, <2>1, <2>2, <3>1, <3>4 DEF ModuleInv
    <3> QED BY <2>2, <3>3, <3>4
  <2>5. OnceInv(m)'
    BY <2>2 DEF OnceInv, NotRequired
  <2>6. ASSUME NEW k \in Module \ {m} PROVE ModuleInv(k)' /\ OnceInv(k)'
    <3>1. /\ UNCHANGED <<marks[k], woven[k], given[k], required[k]>>
          /\ k \in outlived' <=> k \in outlived
      BY <1>1, <2>1 DEF LoaderTypeOK
    <3> QED BY <1>1, <2>1, <3>1, Frame
  <2> QED BY <1>2, <2>3, <2>4, <2>5, <2>6
<1>5. CASE EnableTrace
  <2>1. LoaderTypeOK'
    BY <1>1, <1>5 DEF LoaderTypeOK, EnableTrace
  <2>2. ASSUME NEW k \in Module PROVE ModuleInv(k)' /\ OnceInv(k)'
    BY <1>1, <1>5, Frame DEF EnableTrace
  <2> QED BY <1>2, <2>1, <2>2
<1>6. CASE UNCHANGED loaderVars
  <2>1. LoaderTypeOK'
    BY <1>1, <1>6 DEF LoaderTypeOK, loaderVars
  <2>2. ASSUME NEW k \in Module PROVE ModuleInv(k)' /\ OnceInv(k)'
    BY <1>1, <1>6, Frame DEF loaderVars
  <2> QED BY <1>2, <2>1, <2>2
<1> QED BY <1>3, <1>4, <1>5, <1>6 DEF LoaderNext

(* The marks tell what is woven, and what require() gives is instrumented  *)
(* once.                                                                   *)
THEOREM LoaderInvariant == LoaderSpec => []LoaderInv
<1>1. LoaderInv /\ UNCHANGED loaderVars => LoaderInv'
  BY LoaderInvStep
<1> QED BY LoaderInvInit, LoaderInvStep, PTL DEF LoaderSpec

(* However often modules are required, whenever tracing is enabled and     *)
(* whatever is deleted from the cache, with its hooks or without: what the *)
(* last require() gave is measured by the probes that matched, and once    *)
(* but for the modules woven again.                                        *)
THEOREM Once == LoaderSpec => []InstrumentedOnce
<1>1. LoaderInv => InstrumentedOnce
  BY DEF LoaderInv
<1> QED BY <1>1, LoaderInvariant, PTL
=============================================================================
