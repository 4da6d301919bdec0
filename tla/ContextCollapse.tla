--------------------------- MODULE ContextCollapse ---------------------------
(***************************************************************************)
(* bench-a-context-collapse: an attack chain is planted in a background       *)
(* (ocsf-semantic-testbed/generate.py), written to a store that keeps all and  *)
(* to one that is coarsened (stores.py), and a battery of queries is asked of   *)
(* both (bench.py), for a ladder of coarseness (dose_response.py).  Times are    *)
(* seconds after BASE_EPOCH, which is an even multiple of an hour.  An answer    *)
(* has full marks if it is the truth; of Kendall's tau only the pairs that       *)
(* are out of order are kept.  Rows that both stores copy one by one (logins,    *)
(* sessions, images, API counts) are left out.                                *)
(***************************************************************************)
EXTENDS Integers, Sequences, FiniteSets, FiniteSetsExt

VARIABLE
  corpus       \* the corpus that is built, <<>> before

DAY_S   == 24 * 3600
days    == 14
n_hosts == 80
t0      == (days \div 2) * DAY_S + 10 * 3600

CHAINS ==
  [A |-> [ws1 |-> [host |-> <<"WS", 1>>, ip |-> <<10, 10, 1, 21>>],
          ws2 |-> [host |-> <<"WS", 2>>, ip |-> <<10, 10, 1, 22>>],
          beacon_port |-> 443, lateral_port |-> 3389, command |-> 258],
   B |-> [ws1 |-> [host |-> <<"SRV", 1>>, ip |-> <<10, 30, 7, 51>>],
          ws2 |-> [host |-> <<"SRV", 2>>, ip |-> <<10, 30, 7, 52>>],
          beacon_port |-> 8443, lateral_port |-> 445, command |-> 266]]

_background_host(i) ==
  LET h == 3 + (i % n_hosts)
  IN  [host |-> <<"WS", h>>, ip |-> <<10, 10, 1 + (h \div 254), h % 254>>]

\* Where "-EncodedCommand" ends in the planted command line.
MARKER == 41

Conn(uid, orig, resp, port, out, in, time, delay) ==
  [uid |-> uid, orig |-> orig, resp |-> resp, port |-> port, out |-> out, in |-> in,
   time |-> time, logged |-> time + delay]

Api(op, principal, mfa, time, delay) ==
  [op |-> op, principal |-> principal, mfa |-> mfa, time |-> time,
   logged |-> time + delay]

Proc(marker, length, host, time, delay) ==
  [marker |-> marker, length |-> length, host |-> host, time |-> time,
   logged |-> time + delay]
-----------------------------------------------------------------------------
(* The corpus: the chain, with the jitter of its beacons, and what is drawn of   *)
(* the background                                                             *)

plant_chain(c, jitter) ==
  [conn |-> {Conn(<<"beacon", k>>, c.ws1.ip, <<"c2">>, c.beacon_port, 520, 640,
                  t0 + 480 + k * 60 + jitter[k % 2], 2) : k \in 0..59} \cup
            {Conn(<<"lateral">>, c.ws1.ip, c.ws2.ip, c.lateral_port, 12400, 88200,
                  t0 + 4205, 2)},
   api  |-> {Api("GetSessionToken", "user/jdoe", "false", t0, 12),
             Api("AttachUserPolicy", "user/jdoe", "absent", t0 + 4800, 15),
             Api("AssumeRole", "role/jdoe", "false", t0 + 5400, 12)} \cup
            {Api("GetObject", "role/jdoe", "false", t0 + 6000 + k * 5, 10) : k \in 0..29},
   proc |-> {Proc(TRUE, c.command, c.ws1.host, t0 + 300, 5),
             Proc(FALSE, 22, c.ws1.host, t0 + 1800, 3600)}]

\* Connections of any host, and API calls, whose mfaAuthenticated is there.
gen_conn ==
  {Conn(<<"conn", i, port, out, time>>, _background_host(i).ip, <<"elsewhere">>, port,
        out, 900000, time, 5) :
     i \in {18, 50}, port \in {443, 3389}, out \in {40, 250000},
     time \in {0, t0 + 299, t0 + 300, days * DAY_S - 1}}

gen_cloud ==
  {Api(op, "user/user0001", mfa, time, 20) :
     op \in {"AttachUserPolicy", "AssumeRole"}, mfa \in {"true", "false"}, time \in {0}}

\* None or one connection, or one from each host to each port, and all of the calls
\* or none.
Backgrounds ==
  [conn : {{}} \cup {{b} : b \in gen_conn} \cup
          {{b \in gen_conn : b.out = out /\ b.time = 0} : out \in {40, 250000}},
   api  : {{}, gen_cloud}]

\* A beacon is up to two seconds early or late.
Jitters == {[parity \in {0, 1} |-> IF parity = first THEN -2 ELSE 2] : first \in {0, 1}}

Corpora == [chain : DOMAIN CHAINS, jitter : Jitters, background : Backgrounds]

build(drawn) ==
  LET chain == plant_chain(CHAINS[drawn.chain], drawn.jitter)
  IN  [conn |-> chain.conn \cup drawn.background.conn,
       api  |-> chain.api \cup drawn.background.api,
       proc |-> chain.proc]

CollapseInit == corpus = <<>>

CollapseNext == corpus = <<>> /\ corpus' \in Corpora
-----------------------------------------------------------------------------
(* Store N *)

LADDER ==
  {[rollup |-> 60,   cmdline_trunc |-> 256, dns_rare_min |-> 2],
   [rollup |-> 300,  cmdline_trunc |-> 64,  dns_rare_min |-> 3],
   [rollup |-> 900,  cmdline_trunc |-> 24,  dns_rare_min |-> 6],
   [rollup |-> 3600, cmdline_trunc |-> 12,  dns_rare_min |-> 12]}

\* Mutant: the cast truncates.
Nearest_Truncated(a, b) == a \div b

\* DuckDB: a quotient cast to an integer is rounded, half to even.
Nearest(a, b) ==
  LET q == a \div b
      twice == 2 * (a % b)
  IN  IF twice > b \/ (twice = b /\ q % 2 = 1) THEN q + 1 ELSE q

Flow(conn, rollup) ==
  [time |-> Nearest(conn.logged, rollup) * rollup, orig |-> conn.orig, resp |-> conn.resp,
   port |-> conn.port]

Flows(conns, rollup) == {Flow(conn, rollup) : conn \in conns}

InFlow(conns, rollup, flow) == {conn \in conns : Flow(conn, rollup) = flow}

bytes_out(conns) == MapThenSumSet(LAMBDA conn : conn.out, conns)

\* The queries for the first packet of a phase, a set of times for each phase.
milestone_times_F(store, c) ==
  LET apis(op) == {a \in store.api : a.op = op}
      conns == {n \in store.conn : n.orig = c.ws1.ip}
      TimesOf(rows) == {r.time : r \in rows}
  IN  <<TimesOf({a \in apis("GetSessionToken") : a.principal = "user/jdoe"}),
        TimesOf({p \in store.proc : p.marker /\ p.host = c.ws1.host}),
        TimesOf({n \in conns : n.port = c.beacon_port /\ n.out < 1000}),
        TimesOf({n \in conns : n.resp = c.ws2.ip /\ n.port = c.lateral_port}),
        TimesOf({a \in apis("AttachUserPolicy") : a.mfa = "absent"}),
        TimesOf({a \in apis("AssumeRole") : a.principal = "role/jdoe"}),
        TimesOf(apis("GetObject"))>>

milestone_times_N(store, c, rung) ==
  LET apis(op, principal) == {a \in store.api : a.op = op /\ a.principal = principal}
      flows == {f \in Flows(store.conn, rung.rollup) : f.orig = c.ws1.ip}
      Logged(rows) == {r.logged : r \in rows}
  IN  <<Logged(apis("GetSessionToken", "user/jdoe")),
        Logged({p \in store.proc : /\ p.marker /\ MARKER <= rung.cmdline_trunc
                                   /\ p.host = c.ws1.host}),
        {f.time : f \in {g \in flows : g.port = c.beacon_port}},
        {f.time : f \in {g \in flows : g.resp = c.ws2.ip /\ g.port = c.lateral_port}},
        Logged({a \in apis("AttachUserPolicy", "user/jdoe") : a.mfa # "true"}),
        Logged(apis("AssumeRole", "role/jdoe")),
        Logged(apis("GetObject", "role/jdoe"))>>

recovered(m) == {s \in DOMAIN m : m[s] # {}}

\* A sort that is stable leaves equal times in the order of the truth.
discordant(m) ==
  {<<i, j>> \in recovered(m) \X recovered(m) : i < j /\ Min(m[i]) > Min(m[j])}

dwell(m) == Min(m[4]) - Min(m[2])

dwell_truth == 4205 - 300
-----------------------------------------------------------------------------
(* The other queries of the battery *)

Candidates(store) ==
  {{n \in store.conn : <<n.orig, n.resp, n.port>> = key} :
     key \in {<<n.orig, n.resp, n.port>> : n \in store.conn}}

f_beacon(store) ==
  UNION {{n.uid : n \in g} :
    g \in {g \in Candidates(store) :
            LET times == {n.time : n \in g}
            IN  /\ Cardinality(g) >= 30
                /\ Max(times) - Min(times) \in (50 * 60)..(75 * 60)
                /\ MapThenSumSet(LAMBDA n : n.out + n.in, g) < 2000 * Cardinality(g)}}

n_has(c, rung) == c.command <= rung.cmdline_trunc

\* The domain of the beacons is asked for once.
n_seen(rung) == 1 >= rung.dns_rare_min

f_set(store) == {a \in store.api : a.op = "AttachUserPolicy" /\ a.mfa = "absent"}
n_set(store) == {a \in store.api : a.op = "AttachUserPolicy" /\ a.mfa # "true"}

CHAIN_WINDOW_S == 70 * 60
win(t) == t \in t0..(t0 + CHAIN_WINDOW_S)
late(store) == CHOOSE p \in store.proc : ~p.marker
-----------------------------------------------------------------------------
\* The background connections from the address that beacons, to the port it uses.
Confusing(drawn) ==
  LET c == CHAINS[drawn.chain]
  IN  {n \in drawn.background.conn : n.orig = c.ws1.ip /\ n.port = c.beacon_port}

(* The store that keeps all finds the chain: the beacons and nothing else, the   *)
(* one escalation without MFA, the late event at its time, the dwell, and each   *)
(* phase in order, except where the background has a small connection from the   *)
(* beaconing address to the same port before the execution.  That can happen     *)
(* in chain A only, whose addresses, unlike its names, the background shares.    *)
FidelityFinds(drawn) ==
  LET c == CHAINS[drawn.chain]
      store == build(drawn)
      m == milestone_times_F(store, c)
  IN  /\ f_beacon(store) = {<<"beacon", k>> : k \in 0..59}
      /\ Cardinality(f_set(store)) = 1
      /\ win(late(store).time) /\ ~win(late(store).logged)
      /\ recovered(m) = 1..7 /\ dwell(m) = dwell_truth
      /\ discordant(m) # {} <=>
           \E n \in Confusing(drawn) : n.out < 1000 /\ n.time < t0 + 300
      /\ Confusing(drawn) # {} => drawn.chain = "A"

(* What a rung of the ladder costs.  The routine figures stay: flows keep bytes   *)
(* and ports.  The phase of execution is lost, and the dwell with it, where the  *)
(* command line is cut before its marker, whatever the window of the flows; on   *)
(* every rung the payload is cut and the domain that is asked for once is gone.  *)
(* The order is that of the chain on every rung below the hour, unless the       *)
(* background confuses it; and the dwell, where there is one, is right within    *)
(* half a window and the delay of the log.                                    *)
CollapseExplained(drawn) ==
  LET c == CHAINS[drawn.chain]
      store == build(drawn)
  IN  \A rung \in LADDER :
        LET m == milestone_times_N(store, c, rung)
            flows == Flows(store.conn, rung.rollup)
        IN  /\ bytes_out(store.conn) =
                 MapThenSumSet(LAMBDA f : bytes_out(InFlow(store.conn, rung.rollup, f)),
                               flows)
            /\ {f.port : f \in flows} = {n.port : n \in store.conn}
            /\ ~n_has(c, rung) /\ ~n_seen(rung)
            /\ n_set(store) \ f_set(store) = {a \in n_set(store) : a.mfa = "false"}
            /\ recovered(m) = {s \in 1..7 : s = 2 => rung.cmdline_trunc >= MARKER}
            /\ 2 \in recovered(m) =>
                 2 * (dwell(m) - dwell_truth) \in (-rung.rollup - 10)..(rung.rollup + 10)
            /\ Confusing(drawn) = {} =>
                 (discordant(m) # {} <=> rung.rollup = 3600)
            /\ (\E n \in Confusing(drawn) : n.time < t0) =>
                 discordant(m) = {<<s, 3>> : s \in recovered(m) \cap {1, 2}}

(* Of the chain planted for the two stores the faithful one loses nothing that   *)
(* the background does not confuse, the coarse one exactly what its knobs cut.   *)
Collapse == corpus # <<>> => FidelityFinds(corpus) /\ CollapseExplained(corpus)
=============================================================================
