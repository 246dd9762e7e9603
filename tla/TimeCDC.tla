------------------------------ MODULE TimeCDC ------------------------------
(***************************************************************************)
(* The CSR path of the scheduler, Scheduler.add_csr in                     *)
(* src/litex_m2sdr/gateware/ad9361/scheduler.py: the manual time write     *)
(* (sys -> rfic) and the two diagnostic reads, of now and of latched_ts    *)
(* (a request sys -> rfic, the captured value rfic -> sys), and the CSR    *)
(* helpers of src/sim/testbench.py that drive them.                        *)
(*                                                                         *)
(* The two clocks are independent: a step is one edge of one of them      *)
(* (SysEdge or RficEdge), in any interleaving, optionally with at most    *)
(* MaxSysPerRfic sys edges between two rfic edges.  Each crossing is a    *)
(* migen MultiReg (two registers in the destination domain) or a           *)
(* PulseSynchronizer (a toggle in the source domain, a MultiReg of it and  *)
(* an edge detector in the destination).  A destination edge samples a    *)
(* source that changed in the step just before it unreliably: each bit     *)
(* resolves to its old or its new value.  Anything that changed at least   *)
(* one step earlier has settled.                                           *)
(*                                                                         *)
(* Values are Width bits wide instead of 64.                               *)
(***************************************************************************)
EXTENDS Integers, Sequences

CONSTANTS
  Width,          \* width of the time values (64 in the code)
  ManualValues,   \* values the driver writes to _write_time
  Wait,           \* sys edges the driver waits after a request
  MaxRequests,    \* bound: requests the driver issues
  MaxSysPerRfic   \* bound: sys edges between two rfic edges

Values == 0 .. 2^Width - 1

Reads == {"read", "read_current_ts"}

Requests == Reads \cup {"write"}

None == -1

ASSUME ManualValues \subseteq Values /\ Wait >= 1 /\ MaxSysPerRfic >= 1

VARIABLES
  storage,      \* _write_time.storage (sys)
  field,        \* _control.fields read / write / read_current_ts (sys)
  toggle_i,     \* PulseSynchronizer toggle_i per request (sys)
  toggle_s,     \* first register of the toggle MultiReg (rfic)
  toggle_o,     \* toggle_o, second register (rfic)
  toggle_o_r,   \* toggle_o_r (rfic)
  manual_s,     \* first register of the manual_now MultiReg (rfic)
  manual_now,   \* manual_now (rfic)
  now,          \* now (rfic)
  time_input,   \* time_input from the TimeGenerator (rfic)
  latched_ts,   \* latched_ts of the scheduler (rfic)
  captured,     \* time_read and current_ts_read (rfic)
  status_s,     \* first register of the status MultiRegs (sys)
  status,       \* _read_time.status and _current_ts.status (sys)
  before,       \* the crossing sources as they were before the last step
  sinceRfic,    \* sys edges since the last rfic edge
  op,           \* the driver's request in progress, or "idle"
  elapsed,      \* sys edges since the driver's request
  issued,       \* requests issued so far
  wvals,        \* history: values of the write requests
  wloads,       \* history: values loaded into now by write_time_manually
  served,       \* history: value captured for the latest read request
  results       \* history: reads completed by the driver

sysVars == << storage, field, toggle_i, status_s, status >>
rficVars == << toggle_s, toggle_o, toggle_o_r, manual_s, manual_now, now,
               time_input, latched_ts, captured >>
driverVars == << op, elapsed, issued, wvals, results >>
vars == << sysVars, rficVars, driverVars, before, sinceRfic, wloads, served >>

-----------------------------------------------------------------------------
(* Synchronizers.                                                          *)

Bit(v, i) == (v \div 2^i) % 2

(* What a register of the destination domain may capture from a source     *)
(* that went from old to new: each bit the old or the new one.             *)
Sampled(old, new) ==
  {v \in Values : \A i \in 0 .. Width - 1 : Bit(v, i) \in {Bit(old, i), Bit(new, i)}}

(* The first stage of a MultiReg of one toggle per request.                *)
ToggleSamples ==
  {f \in [Requests -> BOOLEAN] :
     \A c \in Requests : f[c] \in {before.toggle_i[c], toggle_i[c]}}

(* Mutation-test variants of Pulse: the toggle taken after one register   *)
(* instead of two, and the toggle level used without the edge detector.   *)
PulseOneStage(c) == toggle_s[c] # toggle_o[c]

PulseLevel(c) == toggle_o[c]

(* PulseSynchronizer output: o = toggle_o ^ toggle_o_r.                    *)
Pulse(c) == toggle_o[c] # toggle_o_r[c]

(* The values the read requests capture: now, and latched_ts.              *)
Source(c) == IF c = "read" THEN now ELSE latched_ts

(* now loads manual_now on write_time_manually, otherwise follows          *)
(* time_input.                                                             *)
TrackNow == now' = IF Pulse("write") THEN manual_now ELSE time_input

Sources == [storage |-> storage, toggle_i |-> toggle_i, captured |-> captured]

-----------------------------------------------------------------------------
(* The rfic domain: the synchronizer registers, the time tracking of the   *)
(* scheduler and the two captures; latched_ts is set by the scheduler's    *)
(* datapath and may change at any rfic edge.                               *)
RficEdge ==
  /\ toggle_s' \in ToggleSamples
  /\ toggle_o' = toggle_s
  /\ toggle_o_r' = toggle_o
  /\ manual_s' \in Sampled(before.storage, storage)
  /\ manual_now' = manual_s
  /\ TrackNow
  /\ time_input' = (time_input + 1) % 2^Width
  /\ latched_ts' \in Values
  /\ captured' = [c \in Reads |-> IF Pulse(c) THEN Source(c) ELSE captured[c]]
  /\ served' = [c \in Reads |-> IF Pulse(c) /\ served[c] = None
                                THEN Source(c) ELSE served[c]]
  /\ wloads' = IF Pulse("write") THEN Append(wloads, manual_now) ELSE wloads
  /\ before' = Sources
  /\ sinceRfic' = 0
  /\ UNCHANGED << sysVars, driverVars >>

(* The driver (write_manual_time, read_time, read_current_ts of the        *)
(* testbench): a request sets the control field for one sys cycle, and the *)
(* storage with it for a write; Wait sys edges later the request is done   *)
(* and, for a read, the status register is taken as the result.            *)
Issue(c, v) ==
  /\ issued < MaxRequests
  /\ field' = [x \in Requests |-> x = c]
  /\ storage' = IF c = "write" THEN v ELSE storage
  /\ op' = c /\ elapsed' = 1 /\ issued' = issued + 1
  /\ wvals' = IF c = "write" THEN Append(wvals, v) ELSE wvals

Complete ==
  results' = IF op \in Reads
             THEN Append(results, [op |-> op, got |-> status'[op], want |-> served[op]])
             ELSE results

DriverStep ==
  \/ /\ op # "idle" /\ elapsed < Wait
     /\ field' = [x \in Requests |-> FALSE]
     /\ elapsed' = elapsed + 1
     /\ UNCHANGED << storage, op, issued, wvals, results, served >>
  \/ /\ op = "idle" \/ elapsed >= Wait
     /\ Complete
     /\ \/ \E c \in Requests, v \in ManualValues :
             /\ Issue(c, v)
             /\ served' = IF c \in Reads THEN [served EXCEPT ![c] = None] ELSE served
        \/ /\ field' = [x \in Requests |-> FALSE]
           /\ op' = "idle"
           /\ UNCHANGED << storage, elapsed, issued, wvals, served >>

(* The sys domain: each request toggles toggle_i in the cycle its field is *)
(* high, and the status MultiRegs sample the captured values.              *)
SysEdge ==
  /\ sinceRfic < MaxSysPerRfic
  /\ sinceRfic' = sinceRfic + 1
  /\ toggle_i' = [c \in Requests |-> IF field[c] THEN ~toggle_i[c] ELSE toggle_i[c]]
  /\ status_s' \in {f \in [Reads -> Values] :
                      \A c \in Reads : f[c] \in Sampled(before.captured[c], captured[c])}
  /\ status' = status_s
  /\ DriverStep
  /\ before' = Sources
  /\ UNCHANGED << rficVars, wloads >>

Init ==
  /\ storage = 0 /\ field = [c \in Requests |-> FALSE]
  /\ toggle_i = [c \in Requests |-> FALSE]
  /\ toggle_s = toggle_i /\ toggle_o = toggle_i /\ toggle_o_r = toggle_i
  /\ manual_s = 0 /\ manual_now = 0
  /\ now = 0 /\ time_input = 0 /\ latched_ts = 0
  /\ captured = [c \in Reads |-> 0]
  /\ status_s = captured /\ status = captured
  /\ before = Sources
  /\ sinceRfic = 0
  /\ op = "idle" /\ elapsed = 0 /\ issued = 0
  /\ wvals = << >> /\ wloads = << >>
  /\ served = [c \in Reads |-> None]
  /\ results = << >>

Next == SysEdge \/ RficEdge

Spec == Init /\ [][Next]_vars

-----------------------------------------------------------------------------
(***************************************************************************)
(* Properties.                                                             *)
(***************************************************************************)

(* No write request is in flight: the field is low and the toggle agrees  *)
(* in all stages of the PulseSynchronizer.                                 *)
WriteQuiet ==
  /\ ~field["write"]
  /\ toggle_i["write"] = toggle_s["write"]
  /\ toggle_s["write"] = toggle_o["write"]
  /\ toggle_o["write"] = toggle_o_r["write"]

(* Each manual time write loads now exactly once, with the value written   *)
(* (spec 4.1: "a single-cycle request causes exactly one load", and the    *)
(* 64-bit value is never observed partially updated): the i-th load of     *)
(* write_time_manually takes the i-th value written, and once the pulse    *)
(* has crossed every write has been loaded (MultiReg of _write_time and    *)
(* time_write_ps, scheduler.py lines 201-205, against now, lines 38-44).   *)
WriteLoadsMatch ==
  /\ Len(wloads) <= Len(wvals)
  /\ \A i \in DOMAIN wloads : wloads[i] = wvals[i]
  /\ WriteQuiet => Len(wloads) = Len(wvals)

(* A read returns the value captured for it: the result the driver takes   *)
(* from _read_time or _current_ts is the value of now or latched_ts at the *)
(* rfic edge that served that request (spec 4.1: "return the stable value  *)
(* sampled at that edge"; scheduler.py lines 207-221).                     *)
ReadReturnsServed ==
  \A i \in DOMAIN results : results[i].got = results[i].want

=============================================================================
