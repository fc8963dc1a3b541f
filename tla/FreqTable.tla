------------------------------ MODULE FreqTable ------------------------------
(***************************************************************************)
(* The tables of frequencies of seeker-cpufreq (freq.c, main.c): each cpu's*)
(* table is read from the driver, sorted, and pruned to the states of the  *)
(* module parameter allowed_states.  The parameter is corrected in place,  *)
(* so the passes over the cpus and the two calls of init_freqs share it.   *)
(***************************************************************************)
EXTENDS Integers, Sequences, FiniteSetsExt

CONSTANTS
    MaxStates,      \* MAX_STATES
    OnlineCpus,     \* num_online_cpus()
    Invalid         \* CPUFREQ_ENTRY_INVALID

ASSUME FreqTableAssumption == MaxStates \in Nat \ {0} /\ OnlineCpus \in Nat

Slots == 0 .. MaxStates - 1
Blank == [table |-> [i \in Slots |-> 0], valid |-> [i \in Slots |-> 0], num |-> 0]

Bubble(t, j) ==
    IF t[j] <= t[j + 1] THEN t ELSE [t EXCEPT ![j] = t[j + 1], ![j + 1] = t[j]]

(* The pairs of neighbours are compared from the first to the last,        *)
(* len - 1 times.                                                          *)
Pass(t, len) ==
    LET at[j \in 0 .. len - 1] == IF j = 0 THEN t ELSE Bubble(at[j - 1], j - 1)
    IN  at[len - 1]

sort_table(t, len) ==
    LET after[i \in 0 .. len - 1] == IF i = 0 THEN t ELSE Pass(after[i - 1], len)
    IN  IF len <= 1 THEN t ELSE after[len - 1]

(* The valid entries of the driver's table, as many as there is room for.  *)
Usable(raw) ==
    LET upto[j \in 0 .. Len(raw)] ==
            IF j = 0 THEN <<>>
            ELSE IF raw[j] = Invalid \/ Len(upto[j - 1]) = MaxStates THEN upto[j - 1]
            ELSE Append(upto[j - 1], raw[j])
    IN  upto[Len(raw)]

(* Entries beyond them keep what they held.                                *)
read_table(raw, info) ==
    LET usable == Usable(raw)
        n == Len(usable)
    IN  [table |-> [i \in Slots |-> IF i < n THEN usable[i + 1] ELSE info.table[i]],
         valid |-> [i \in Slots |-> IF i < n THEN 1 ELSE 0],
         num |-> n]

-----------------------------------------------------------------------------
Clamped(v, n) == IF v < 0 THEN 0 ELSE IF v >= n THEN n - 1 ELSE v

(* The first loop of prune_states runs over as many entries of             *)
(* allowed_states as the cpu has states; entries the user left out are 0.  *)
Corrected(allowed, n) == [i \in Slots |-> IF i < n THEN Clamped(allowed[i], n) ELSE allowed[i]]

mark_valid(info, allowed) ==
    [s \in Slots |-> IF \E i \in 0 .. info.num - 1 : allowed[i] = s THEN 2 ELSE info.valid[s]]

Shifted(f, i) == [j \in Slots |-> IF i <= j /\ j < MaxStates - 1 THEN f[j + 1] ELSE f[j]]

(* Mutant: after a removal the entry moved up is skipped.                  *)
StepSkips(p) ==
    IF p.valid[p.i] = 2 THEN [p EXCEPT !.i = @ + 1]
    ELSE [i |-> p.i + 1, table |-> Shifted(p.table, p.i), valid |-> Shifted(p.valid, p.i),
          num |-> p.num - 1]

(* One turn of the second loop: an entry that is not allowed is removed    *)
(* and its successors move up.                                             *)
Step(p) ==
    IF p.valid[p.i] = 2 THEN [p EXCEPT !.i = @ + 1]
    ELSE [p EXCEPT !.table = Shifted(p.table, p.i), !.valid = Shifted(p.valid, p.i),
                   !.num = @ - 1]

(* The second loop runs over the first length entries.  Once MaxStates     *)
(* entries have gone all that follow are alike: without an allowed one     *)
(* among them the loop never ends, which is the result hung.               *)
prune_states(info, allowed, length) ==
    LET start == [i |-> 0, table |-> info.table, valid |-> mark_valid(info, allowed),
                  num |-> info.num]
        turn[k \in 0 .. 2 * MaxStates] ==
            IF k = 0 THEN start
            ELSE LET p == turn[k - 1] IN IF p.i < length THEN Step(p) ELSE p
        end == turn[2 * MaxStates]
    IN  [hung |-> end.i < length,
         info |-> [table |-> end.table, valid |-> end.valid, num |-> end.num]]

(* init_freqs for one cpu: the state is what the loop over the cpus        *)
(* carries along, the tables and the parameter.                            *)
init_freq(cpu, raw, st) ==
    LET read   == read_table(raw, st.info[cpu])
        sorted == [read EXCEPT !.table = sort_table(@, read.num)]
        length == Min({st.length, read.num})
        allowed == IF length > 0 THEN Corrected(st.allowed, read.num) ELSE st.allowed
        pruned == IF length > 0 THEN prune_states(sorted, allowed, length)
                  ELSE [hung |-> FALSE, info |-> sorted]
    IN  IF pruned.hung THEN [st EXCEPT !.hung = TRUE]
        ELSE [info |-> [st.info EXCEPT ![cpu] = pruned.info], allowed |-> allowed,
              length |-> length, hung |-> FALSE]

init_freqs(raws, st) ==
    LET upto[c \in 0 .. OnlineCpus] ==
            IF c = 0 \/ st.hung THEN st
            ELSE IF upto[c - 1].hung THEN upto[c - 1]
            ELSE init_freq(c - 1, raws[c - 1], upto[c - 1])
    IN  upto[OnlineCpus]
=============================================================================
