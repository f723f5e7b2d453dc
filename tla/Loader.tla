-------------------------------- MODULE Loader --------------------------------
(***************************************************************************)
(* How modules are instrumented (index.js, attach() of every probe): the   *)
(* patched require() hands what the original returns, the exports that     *)
(* node keeps, to the probes whose name is that of the module.  A probe    *)
(* either weaves its hooks into the exports or returns a new function that *)
(* does so with every object it makes.  Marks on the exports tell that it  *)
(* was done: __ddProbeAttached__, which the patch itself looks at, or one  *)
(* of the probe.  Once tracing is enabled the trace probe weaves the files *)
(* of the application, which are required by a relative name.              *)
(*                                                                         *)
(* Abstracted: what the hooks do (ProbeCalls); stopList, excludeModules    *)
(* and the stack frame by which attach() of the trace probe tells files of *)
(* the application from those of packages.  Which file of a package makes  *)
(* the object that is woven is not known here: see DeleteFromCache.        *)
(***************************************************************************)
EXTENDS Naturals

CONSTANTS
    Module,         \* the names that are required
    MaxRequires     \* bound on the times each is required

(* Packages and built-in modules, and files: one that exports an object, a *)
(* class, and one that exports a plain function.                           *)
Outbound == {"http", "https"}
Package ==
    Outbound \cup
    {"axon", "basho-riak-client", "leveldown", "loopback-datasource-juggler",
     "memcached", "mongodb", "mqlight", "mqtt", "mysql", "oracle", "oracledb",
     "pg", "redis", "socket.io", "strong-express-metrics", "strong-mq",
     "strong-oracle"}
File == {"./object", "./class", "./function"}

ASSUME LoaderConstants ==
    /\ Module \subseteq Package \cup File
    /\ MaxRequires \in Nat

VARIABLES
    tracing,        \* traceProbe is one of the probes
    marks,          \* the marks on the exports of each module
    woven,          \* how often each probe has woven its hooks into them
    outlived,       \* history: the modules whose hooks outlived their marks
    given,          \* what the last require() gave, and who weaves that;
                    \* history: the probes that matched then
    required        \* how often each module was required

loaderVars == <<tracing, marks, woven, outlived, given, required>>

(* A probe has the name of its module; http and https have two.            *)
Probes(m) ==
    IF m \in File THEN {"trace"}
    ELSE {m} \cup (IF m \in Outbound THEN {"outbound"} ELSE {})

(* Those that may weave their hooks into a module.                         *)
Weaver == UNION {Probes(m) : m \in Module}

(* The probes whose hooks go into a new function, made by each require().  *)
(* (That of socket.io also weaves into the prototype once, under a mark.)  *)
GivesNew(m, p) ==
    \/ m \in {"leveldown", "socket.io", "strong-oracle"}
    \/ m = "./function" /\ p = "trace"

(* The probes that leave no mark on the exports.                           *)
LeavesNoMark ==
    {"leveldown", "socket.io", "loopback-datasource-juggler", "./function"}

(* The probes with a mark of their own.                                    *)
HasOwnMark ==
    {"http", "https", "oracle", "oracledb", "mqlight", "redis",
     "strong-oracle"}

(* Those of them that return nothing when they find it.                    *)
ReturnsNothing == {"oracle", "mqlight", "strong-oracle"}

(* A mistake for LoaderInv to catch: both probes of http use the           *)
(* same mark.                                                              *)
OneMark(m, p) ==
    IF m \in LeavesNoMark THEN {}
    ELSE IF m \in HasOwnMark THEN {"probe"} ELSE {"dd"}

Mark(m, p) ==
    IF m \in LeavesNoMark THEN {}
    ELSE IF m \in HasOwnMark
         THEN {IF p = "outbound" THEN "outbound" ELSE "probe"}
         ELSE {"dd"}

(* The probes that mark the exports and weave into an object they find     *)
(* inside: Collection.prototype, RedisClient.prototype, DataAccessObject,  *)
(* or the list that onRecord() adds their callback to.                     *)
WeavesInside ==
    {"mongodb", "redis", "loopback-datasource-juggler",
     "strong-express-metrics"}

LoaderTypeOK ==
    /\ tracing \in BOOLEAN
    /\ marks \in [Module -> SUBSET {"dd", "probe", "outbound"}]
    /\ woven \in [Module -> [Weaver -> 0..MaxRequires]]
    /\ outlived \subseteq Module \cap WeavesInside
    /\ given \in [Module -> [what : {"none", "nothing", "exports", "new"},
                             by : SUBSET Weaver, due : SUBSET Weaver]]
    /\ required \in [Module -> 0..MaxRequires]

NotRequired == [what |-> "none", by |-> {}, due |-> {}]

LoaderInit ==
    /\ tracing = FALSE
    /\ marks = [m \in Module |-> {}]
    /\ woven = [m \in Module |-> [p \in Weaver |-> 0]]
    /\ outlived = {}
    /\ given = [m \in Module |-> NotRequired]
    /\ required = [m \in Module |-> 0]
-----------------------------------------------------------------------------
(* The probes in the list that match.                                      *)
Matching(m) == IF m \in File /\ ~tracing THEN {} ELSE Probes(m)

Gives(m, what, by) ==
    given' = [given EXCEPT ![m] = [what |-> what, by |-> by,
                                   due |-> Matching(m)]]

(* The marks a probe finds: the outbound probes come first in the list.    *)
Found(m, p) ==
    marks[m] \cup (IF p # "outbound" /\ "outbound" \in Matching(m)
                  THEN Mark(m, "outbound") ELSE {})

(* attach() of all of them, when the patch does not find its own mark.     *)
Attach(m) ==
    LET attaching == {p \in Matching(m) : Mark(m, p) \cap Found(m, p) = {}}
        news == {p \in attaching : GivesNew(m, p)}
    IN  /\ marks' = [marks EXCEPT
                        ![m] = @ \cup UNION {Mark(m, p) : p \in attaching}]
        /\ woven' = [woven EXCEPT
                        ![m] = [p \in Weaver |-> IF p \in attaching \ news
                                                 THEN @[p] + 1 ELSE @[p]]]
        /\ CASE attaching = {} /\ m \in ReturnsNothing ->
                    Gives(m, "nothing", {})
             [] news # {} -> Gives(m, "new", news)
             [] OTHER -> Gives(m, "exports", {})

Require(m) ==
    /\ required[m] < MaxRequires
    /\ required' = [required EXCEPT ![m] = @ + 1]
    /\ IF "dd" \in marks[m]
       THEN Gives(m, "exports", {}) /\ UNCHANGED <<marks, woven>>
       ELSE Attach(m)
    /\ UNCHANGED <<tracing, outlived>>

(* enable('trace').  disable('trace') switches only functions that the     *)
(* trace probe does not call.                                              *)
EnableTrace ==
    /\ tracing' = TRUE
    /\ UNCHANGED <<marks, woven, outlived, given, required>>

(* The application deletes a module from require.cache: the next require() *)
(* makes new exports, without marks.  What a probe found inside them is    *)
(* made anew, too, or is that of an inner file of the package, which stays *)
(* in the cache with its hooks.  Built-in modules are not in that cache.   *)
DeleteFromCache(m) ==
    /\ m \notin Outbound
    /\ given[m] # NotRequired
    /\ marks' = [marks EXCEPT ![m] = {}]
    /\ given' = [given EXCEPT ![m] = NotRequired]
    /\ \/ /\ woven' = [woven EXCEPT ![m] = [p \in Weaver |-> 0]]
          /\ outlived' = outlived \ {m}
       \/ /\ m \in WeavesInside
          /\ outlived' = outlived \cup {m}
          /\ UNCHANGED woven
    /\ UNCHANGED <<tracing, required>>

LoaderNext ==
    \/ \E m \in Module : Require(m) \/ DeleteFromCache(m)
    \/ EnableTrace

LoaderSpec == LoaderInit /\ [][LoaderNext]_loaderVars

-----------------------------------------------------------------------------
(* How often a call made through what require() gave last is measured.     *)
Measured(m, p) == woven[m][p] + (IF p \in given[m].by THEN 1 ELSE 0)

(* The modules whose objects a probe weaves more than once: the juggler,   *)
(* at each require(), and those whose hooks outlived their marks.          *)
WovenAgain == {"loopback-datasource-juggler"} \cup outlived

(* However often modules are required, deleted from the cache and required *)
(* again, and whenever tracing is enabled: what the last require() gave is *)
(* measured by each probe that matched and by no other, and once but for   *)
(* the modules of WovenAgain.  (Modules that give nothing when they are    *)
(* required again are excepted.)                                           *)
InstrumentedOnce ==
    \A m \in Module :
        given[m].what \in {"exports", "new"} =>
            \A p \in Weaver :
                /\ p \in given[m].due <=> Measured(m, p) > 0
                /\ m \notin WovenAgain => Measured(m, p) <= 1

(* Why it is so: a mark tells that the hooks were woven, and files are     *)
(* marked only while tracing.                                              *)
MarksTell ==
    \A m \in Module :
        /\ marks[m] \subseteq UNION {Mark(m, p) : p \in Probes(m)}
        /\ m \in File /\ marks[m] # {} => tracing
        /\ \A p \in Weaver : woven[m][p] <= required[m]
        /\ \A p \in Weaver : p \notin Probes(m) \/ GivesNew(m, p) =>
                             woven[m][p] = 0
        /\ \A p \in Probes(m) : Mark(m, p) # {} /\ ~GivesNew(m, p) =>
              /\ Mark(m, p) \subseteq marks[m] => woven[m][p] > 0
              /\ m \notin outlived =>
                    woven[m][p] = IF Mark(m, p) \subseteq marks[m]
                                  THEN 1 ELSE 0

(* These are inductive together.                                           *)
LoaderInv == LoaderTypeOK /\ MarksTell /\ InstrumentedOnce
=============================================================================
