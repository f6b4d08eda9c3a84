---------------------------- MODULE FeatureFlags ----------------------------
(***************************************************************************)
(* One feature flag: a row of the database, and a cache of a minute in     *)
(* every adapter that reads it.  Each router makes its own adapter, so the *)
(* one an administrator changes the flag through is never one that the     *)
(* requests of the shop read it from.                                      *)
(***************************************************************************)
EXTENDS Integers

CONSTANTS Adapters,      \* the adapters the flag is read through
          AdminAdapter,  \* the adapter it is changed through
          Readers,       \* requests that read the flag, several at a time
          Admins,        \* changes that may be under way at once
          FlagTTL,       \* CACHE_TTL_MS
          SlowestQuery,  \* bound: how long a query may take
          MaxFlagTime,   \* bound: the clock
          NoFlagRow

ASSUME FlagAssumption ==
    /\ AdminAdapter \notin Adapters /\ NoFlagRow \notin BOOLEAN
    /\ FlagTTL \in Nat \ {0} /\ SlowestQuery \in Nat /\ MaxFlagTime \in Nat

VARIABLES flagNow,
          flagRow,     \* FeatureFlag.enabled, or no row
          flagCache,   \* flagCache[a]: the entry of the adapter's map
          reader,      \* reader[r]: where a request is in isEnabled
          admin,       \* admin[u]: where a change is in update
          flagPast     \* flagPast[t]: what the flag was at some moment of t

flagVars == <<flagNow, flagRow, flagCache, reader, admin, flagPast>>

NoReader == [pc |-> "idle", adapter |-> AdminAdapter, value |-> FALSE, since |-> 0]
NoAdmin == [pc |-> "idle", value |-> FALSE, since |-> 0]

FlagTypeOK ==
    /\ flagNow \in 0..MaxFlagTime
    /\ flagRow \in BOOLEAN \cup {NoFlagRow}
    /\ flagCache \in [Adapters \cup {AdminAdapter} -> [value : BOOLEAN, expiresAt : Nat]]
    /\ reader \in [Readers -> [pc : {"idle", "reading", "answered"}, value : BOOLEAN,
                               adapter : Adapters \cup {AdminAdapter}, since : 0..MaxFlagTime]]
    /\ admin \in [Admins -> [pc : {"idle", "writing"}, value : BOOLEAN,
                             since : 0..MaxFlagTime]]
    /\ flagPast \in [0..MaxFlagTime -> SUBSET BOOLEAN]

\* `flag?.enabled ?? defaultValue`: the flags that open a part of the shop
\* are read with the default TRUE.
ValueOf(r) == IF r = NoFlagRow THEN TRUE ELSE r

\* An entry that is not there is one that has expired.
FlagInit ==
    /\ flagNow = 0
    /\ flagRow \in BOOLEAN \cup {NoFlagRow}
    /\ flagCache = [a \in Adapters \cup {AdminAdapter} |-> [value |-> FALSE, expiresAt |-> 0]]
    /\ reader = [r \in Readers |-> NoReader]
    /\ admin = [u \in Admins |-> NoAdmin]
    /\ flagPast = [t \in 0..MaxFlagTime |-> IF t = 0 THEN {ValueOf(flagRow)} ELSE {}]

\* No query is left without an answer for longer than SlowestQuery.
FlagTick ==
    /\ flagNow < MaxFlagTime
    /\ \A r \in Readers : reader[r].pc = "reading" => flagNow - reader[r].since < SlowestQuery
    /\ \A u \in Admins : admin[u].pc = "writing" => flagNow - admin[u].since < SlowestQuery
    /\ flagNow' = flagNow + 1
    /\ flagPast' = [flagPast EXCEPT ![flagNow + 1] = {ValueOf(flagRow)}]
    /\ UNCHANGED <<flagRow, flagCache, reader, admin>>

-----------------------------------------------------------------------------
\* Mutant of Fresh: an entry serves the moment it expires at.
FreshOneMore(entry) == entry.expiresAt >= flagNow
Fresh(entry) == entry.expiresAt > flagNow
Entry(value) == [value |-> value, expiresAt |-> flagNow + FlagTTL]

\* isEnabled answers from the cache...
ReadCached(r, a) ==
    /\ reader[r].pc # "reading"
    /\ Fresh(flagCache[a])
    /\ reader' = [reader EXCEPT ![r] = [pc |-> "answered", adapter |-> a,
                                        value |-> flagCache[a].value, since |-> flagNow]]
    /\ UNCHANGED <<flagNow, flagRow, flagCache, admin, flagPast>>

\* ...or asks the database, and keeps the answer from when it arrives,
\* whatever has been cached or changed in between.
ReadRow(r, a) ==
    /\ reader[r].pc # "reading"
    /\ ~Fresh(flagCache[a])
    /\ reader' = [reader EXCEPT ![r] = [pc |-> "reading", adapter |-> a,
                                        value |-> ValueOf(flagRow), since |-> flagNow]]
    /\ UNCHANGED <<flagNow, flagRow, flagCache, admin, flagPast>>

CacheRow(r) ==
    /\ reader[r].pc = "reading"
    /\ flagCache' = [flagCache EXCEPT ![reader[r].adapter] = Entry(reader[r].value)]
    /\ reader' = [reader EXCEPT ![r].pc = "answered"]
    /\ UNCHANGED <<flagNow, flagRow, admin, flagPast>>

\* PATCH /admin/feature-flags/:key.  A row that is not there is not made.
WriteFlagRow(u, value) ==
    /\ admin[u].pc = "idle"
    /\ flagRow # NoFlagRow
    /\ flagRow' = value
    /\ flagPast' = [flagPast EXCEPT ![flagNow] = @ \cup {value}]
    /\ admin' = [admin EXCEPT ![u] = [pc |-> "writing", value |-> value, since |-> flagNow]]
    /\ UNCHANGED <<flagNow, flagCache, reader>>

CacheWritten(u) ==
    /\ admin[u].pc = "writing"
    /\ flagCache' = [flagCache EXCEPT ![AdminAdapter] = Entry(admin[u].value)]
    /\ admin' = [admin EXCEPT ![u] = NoAdmin]
    /\ UNCHANGED <<flagNow, flagRow, reader, flagPast>>

FlagNext ==
    \/ FlagTick
    \/ \E r \in Readers : CacheRow(r) \/ \E a \in Adapters : ReadCached(r, a) \/ ReadRow(r, a)
    \/ \E u \in Admins : CacheWritten(u) \/ \E value \in BOOLEAN : WriteFlagRow(u, value)

FlagSpec == FlagInit /\ [][FlagNext]_flagVars

-----------------------------------------------------------------------------
\* What a request is told of the flag, the flag was not longer ago than an
\* entry is kept after the slowest query: a module that is switched off is
\* off for everyone by then, however reads and changes overlap.
AnswersFresh ==
    \A r \in Readers : reader[r].pc = "answered" =>
        \E t \in 0..reader[r].since :
            /\ t + FlagTTL + SlowestQuery > reader[r].since
            /\ reader[r].value \in flagPast[t]
=============================================================================
