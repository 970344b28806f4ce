-------------------------- MODULE FUSB302ChipProofs --------------------------
(***************************************************************************)
(* Theorems about the FUSB302 driver at the level of register accesses,    *)
(* for every set of cables, every Rp value and every FIFO depth.  A driver *)
(* call may be cut short at any access, so the invariants speak about the  *)
(* rest of the call: what the registers will be after the accesses still   *)
(* to come, and which accesses are still to come before which.             *)
(***************************************************************************)
EXTENDS FUSB302Chip, TLAPS, SequenceTheorems, FunctionTheorems, FiniteSetTheorems

Signals == {"HARDSENT", "HARDRESET"}
Interrupts == Signals \cup {"GCRCSENT"}
Packets == {"acked", "unacked", "good_crc"}
Chosen == {{pin} : pin \in Pins}
Measurements == {"bc_lvl", "comp_vnc", "comp_rd"}

----------------------------------------------------------------------------
\* Accesses and sequences of them.

\* The fields an access writes, with their values, when no read fails.
Written(a) ==
    CASE a.do \in {"write", "write_back"} -> a.arg
      [] a.do = "sw_reset" ->
            [f \in DOMAIN a.arg \cup DOMAIN ResetRegisters |->
                IF f \in DOMAIN a.arg THEN a.arg[f] ELSE ResetRegisters[f]]
      [] a.do = "flush_rx" -> [bist2 |-> FALSE]
      [] OTHER -> [f \in {} |-> 0]

\* One register a write: of pulls, Tx pin, AUTO_GCRC and header at most one is written.
OneRegister(fields) ==
    \/ {"gcrc", "txcc", "header"} \cap DOMAIN fields = {}
    \/ {"pu", "pd", "gcrc", "header"} \cap DOMAIN fields = {}
    \/ {"pu", "pd", "txcc", "header"} \cap DOMAIN fields = {}
    \/ {"pu", "pd", "txcc", "gcrc"} \cap DOMAIN fields = {}

WellFormed(a) ==
    /\ a.do = "write" =>
          /\ OneRegister(a.arg)
          /\ "gcrc" \in DOMAIN a.arg => a.arg["gcrc"] = TRUE \/ a.arg["gcrc"] = FALSE
          /\ "txcc" \in DOMAIN a.arg => a.arg["txcc"] \in Chosen
          /\ "header" \in DOMAIN a.arg => a.arg["header"] \in {0, 1} \X {0, 1}
    /\ a.do = "write_back" => {"gcrc", "txcc", "header"} \cap DOMAIN a.arg = {}
    /\ a.do = "sw_reset" => DOMAIN a.arg = {"cc_polarity", "mdac_vnc", "mdac_rd"}
    /\ a.do = "send" => a.arg \in {"none", "SOP", "HARD_RESET"}
    /\ a.do \in Measurements => a.arg \in Pins
    /\ a.do = "read" => a.arg \subseteq Interrupts
    /\ a.do = "pd_reset" => a.arg \in Signals

Program(p) ==
    /\ Len(p) \in Nat /\ p = [i \in 1 .. Len(p) |-> p[i]]
    /\ \A i \in 1 .. Len(p) : WellFormed(p[i])

\* A call other than the alert handler.
Plain(p) ==
    /\ Program(p)
    /\ \A i \in 1 .. Len(p) : p[i].do \notin {"read", "handle", "pd_reset", "comp_rd"}

LEMMA ProgramIsSeq ==
    ASSUME NEW p, Program(p)
    PROVE  p \in Seq({p[i] : i \in 1 .. Len(p)})
  <1>1. p \in [1 .. Len(p) -> {p[i] : i \in 1 .. Len(p)}]
    BY DEF Program
  <1> QED BY <1>1, SeqDef DEF Program

LEMMA ProgramTail ==
    ASSUME NEW p, Program(p), p # << >>
    PROVE  /\ Len(p) \in Nat /\ Len(p) > 0 /\ Head(p) = p[1] /\ WellFormed(p[1])
           /\ Program(Tail(p))
           /\ Len(Tail(p)) = Len(p) - 1
           /\ \A i \in 1 .. Len(Tail(p)) : Tail(p)[i] = p[i + 1] /\ i + 1 \in 1 .. Len(p)
  <1> DEFINE S == {p[i] : i \in 1 .. Len(p)}
  <1>1. p \in Seq(S) BY ProgramIsSeq
  <1> HIDE DEF S
  <1>2. Len(p) \in Nat /\ Len(p) > 0 BY <1>1, EmptySeq
  <1>3. /\ Tail(p) \in Seq(S)
        /\ Len(Tail(p)) = Len(p) - 1
        /\ \A i \in 1 .. Len(Tail(p)) : Tail(p)[i] = p[i + 1]
    BY <1>1, HeadTailProperties
  <1>4. \A i \in 1 .. Len(Tail(p)) : i + 1 \in 1 .. Len(p) BY <1>2, <1>3
  <1>5. Program(Tail(p)) BY <1>2, <1>3, <1>4, LenProperties DEF Program
  <1>6. Head(p) = p[1] BY <1>1, <1>2
  <1> QED BY <1>2, <1>3, <1>4, <1>5, <1>6 DEF Program

LEMMA ProgramConcat ==
    ASSUME NEW p, Program(p), NEW q, Program(q)
    PROVE  /\ Program(p \o q)
           /\ Len(p) \in Nat /\ Len(q) \in Nat
           /\ Len(p \o q) = Len(p) + Len(q)
           /\ \A i \in 1 .. Len(p \o q) :
                 \/ i \in 1 .. Len(p) /\ (p \o q)[i] = p[i]
                 \/ i - Len(p) \in 1 .. Len(q) /\ (p \o q)[i] = q[i - Len(p)]
           /\ \A i \in 1 .. Len(p) : i \in 1 .. Len(p \o q) /\ (p \o q)[i] = p[i]
           /\ \A i \in 1 .. Len(q) :
                 Len(p) + i \in 1 .. Len(p \o q) /\ (p \o q)[Len(p) + i] = q[i]
  <1> DEFINE P == {p[i] : i \in 1 .. Len(p)}
             Q == {q[i] : i \in 1 .. Len(q)}
             S == P \cup Q
  <1>1. p \in Seq(P) /\ q \in Seq(Q) BY ProgramIsSeq
  <1>2. P \subseteq S /\ Q \subseteq S OBVIOUS
  <1> HIDE DEF P, Q, S
  <1>3. p \in Seq(S) /\ q \in Seq(S) BY <1>1, <1>2, SeqMonotonic
  <1>4. /\ p \o q \in Seq(S)
        /\ Len(p \o q) = Len(p) + Len(q)
        /\ \A i \in 1 .. Len(p) + Len(q) :
              (p \o q)[i] = IF i <= Len(p) THEN p[i] ELSE q[i - Len(p)]
    BY <1>3, ConcatProperties
  <1>5. Len(p) \in Nat /\ Len(q) \in Nat BY DEF Program
  <1>6. \A i \in 1 .. Len(p \o q) :
           \/ i \in 1 .. Len(p) /\ (p \o q)[i] = p[i]
           \/ i - Len(p) \in 1 .. Len(q) /\ (p \o q)[i] = q[i - Len(p)]
    BY <1>4, <1>5
  <1>7. \A i \in 1 .. Len(p \o q) : WellFormed((p \o q)[i]) BY <1>6 DEF Program
  <1>8. Program(p \o q) BY <1>4, <1>7, LenProperties DEF Program
  <1>9. \A i \in 1 .. Len(p) : i \in 1 .. Len(p \o q) /\ (p \o q)[i] = p[i] BY <1>4, <1>5
  <1>10. \A i \in 1 .. Len(q) :
            Len(p) + i \in 1 .. Len(p \o q) /\ (p \o q)[Len(p) + i] = q[i]
    <2> TAKE i \in 1 .. Len(q)
    <2>1. Len(p) + i \in 1 .. Len(p) + Len(q) /\ ~(Len(p) + i <= Len(p)) /\ Len(p) + i - Len(p) = i
      BY <1>5
    <2> QED BY <2>1, <1>4
  <1> QED BY <1>4, <1>5, <1>6, <1>8, <1>9, <1>10

LEMMA ConcatFirst ==
    ASSUME NEW p, Program(p), NEW q, Program(q), NEW i \in 1 .. Len(p)
    PROVE  i \in 1 .. Len(p \o q) /\ (p \o q)[i] = p[i]
  BY ProgramConcat

LEMMA ConcatSecond ==
    ASSUME NEW p, Program(p), NEW q, Program(q), NEW i \in 1 .. Len(q)
    PROVE  Len(p) + i \in 1 .. Len(p \o q) /\ (p \o q)[Len(p) + i] = q[i]
  BY ProgramConcat

LEMMA ConcatOne ==
    ASSUME NEW p, Program(p), Len(p) = 1, NEW q, Program(q)
    PROVE  /\ Program(p \o q) /\ Len(q) \in Nat
           /\ Len(p \o q) = 1 + Len(q) /\ (p \o q)[1] = p[1]
           /\ \A i \in 1 .. Len(p \o q) :
                 i = 1 \/ (i - 1 \in 1 .. Len(q) /\ (p \o q)[i] = q[i - 1])
           /\ \A i \in 1 .. Len(q) :
                 1 + i \in 1 .. Len(p \o q) /\ (p \o q)[1 + i] = q[i]
  <1>1. Program(p \o q) /\ Len(q) \in Nat /\ Len(p \o q) = 1 + Len(q)
    <2>1. Program(p \o q) /\ Len(q) \in Nat /\ Len(p \o q) = Len(p) + Len(q)
      BY ProgramConcat, Zenon
    <2> QED BY <2>1
  <1>2. ASSUME NEW i \in 1 .. Len(q)
        PROVE  1 + i \in 1 .. Len(p \o q) /\ (p \o q)[1 + i] = q[i]
    <2>1. Len(p) + i \in 1 .. Len(p \o q) /\ (p \o q)[Len(p) + i] = q[i]
      BY ConcatSecond, Zenon
    <2> QED BY <2>1
  <1>3. (p \o q)[1] = p[1]
    <2>1. 1 \in 1 .. Len(p) OBVIOUS
    <2> QED BY <2>1, ConcatFirst
  <1>4. ASSUME NEW i \in 1 .. Len(p \o q), i # 1
        PROVE  i - 1 \in 1 .. Len(q) /\ (p \o q)[i] = q[i - 1]
    <2>1. i - 1 \in 1 .. Len(q) /\ 1 + (i - 1) = i BY <1>1, <1>4
    <2> QED BY <2>1, <1>2
  <1> QED BY <1>1, <1>2, <1>3, <1>4

\* The access a and then the accesses q.
Cons(a, q) == << a >> \o q

LEMMA ConsProgram ==
    ASSUME NEW q, Program(q), NEW a, WellFormed(a)
    PROVE  /\ Program(Cons(a, q)) /\ Len(q) \in Nat
           /\ Len(Cons(a, q)) = 1 + Len(q) /\ Cons(a, q)[1] = a
           /\ \A i \in 1 .. Len(Cons(a, q)) :
                 i = 1 \/ (i - 1 \in 1 .. Len(q) /\ Cons(a, q)[i] = q[i - 1])
           /\ \A i \in 1 .. Len(q) : 1 + i \in 1 .. Len(Cons(a, q)) /\ Cons(a, q)[1 + i] = q[i]
  <1>1. Program(<< a >>) /\ Len(<< a >>) = 1 /\ << a >>[1] = a BY DEF Program
  <1>2. PICK p : p = << a >> OBVIOUS
  <1>3. PICK r : r = p \o q OBVIOUS
  <1>4. Program(p) /\ Len(p) = 1 /\ p[1] = a BY <1>1, <1>2
  <1>5. /\ Program(p \o q) /\ Len(q) \in Nat
        /\ Len(p \o q) = 1 + Len(q) /\ (p \o q)[1] = p[1]
        /\ \A i \in 1 .. Len(p \o q) :
              i = 1 \/ (i - 1 \in 1 .. Len(q) /\ (p \o q)[i] = q[i - 1])
        /\ \A i \in 1 .. Len(q) :
              1 + i \in 1 .. Len(p \o q) /\ (p \o q)[1 + i] = q[i]
    BY <1>4, ConcatOne
  <1>6. Cons(a, q) = p \o q BY <1>2 DEF Cons
  <1> QED BY <1>4, <1>5, <1>6, Zenon

LEMMA PlainConcat ==
    ASSUME NEW p, Plain(p), NEW q, Plain(q)
    PROVE  Plain(p \o q)
  <1>1. Program(p) /\ Program(q) BY DEF Plain
  <1>2. Program(p \o q) BY <1>1, ProgramConcat
  <1>3. ASSUME NEW i \in 1 .. Len(p \o q)
        PROVE  (p \o q)[i].do \notin {"read", "handle", "pd_reset", "comp_rd"}
    <2>1. \/ i \in 1 .. Len(p) /\ (p \o q)[i] = p[i]
          \/ i - Len(p) \in 1 .. Len(q) /\ (p \o q)[i] = q[i - Len(p)]
      BY <1>1, ProgramConcat
    <2> QED BY <2>1 DEF Plain
  <1> QED BY <1>2, <1>3 DEF Plain

----------------------------------------------------------------------------
\* The programs of the driver calls are well formed.

LEMMA WriteWellFormed ==
    ASSUME NEW fields, OneRegister(fields), "gcrc" \notin DOMAIN fields,
           "txcc" \in DOMAIN fields => fields["txcc"] \in Chosen,
           "header" \in DOMAIN fields => fields["header"] \in {0, 1} \X {0, 1}
    PROVE  WellFormed(Write(fields)) /\ Write(fields).do = "write"
  BY DEF WellFormed, Write, Access, Measurements

LEMMA SetCcPlain ==
    ASSUME NEW pull
    PROVE  Plain(fusb302_tcpm_set_cc(pull))
  <1> DEFINE r == [ pu |-> IF pull = "RP" THEN Pins ELSE {},
                    pd |-> IF pull = "RP" THEN {} ELSE Pins,
                    pulling_up |-> IF pull = "RP" THEN 1 ELSE 0 ]
  <1>1. OneRegister(r) /\ {"gcrc", "txcc", "header"} \cap DOMAIN r = {}
    BY DEF OneRegister
  <1> HIDE DEF r
  <1>2. WellFormed(Write(r)) /\ Write(r).do = "write" BY <1>1, WriteWellFormed
  <1>3. Plain(<< Write(r) >>) BY <1>2 DEF Plain, Program
  <1> QED BY <1>3 DEF fusb302_tcpm_set_cc, r

LEMMA SelectRpPlain ==
    ASSUME NEW rp
    PROVE  Plain(fusb302_tcpm_select_rp_value(rp))
  BY DEF Plain, Program, WellFormed, OneRegister, Write, Access, Measurements, fusb302_tcpm_select_rp_value

LEMMA SetPolarityPlain ==
    ASSUME NEW polarity \in {0, 1}
    PROVE  Plain(fusb302_tcpm_set_polarity(polarity))
  <1> DEFINE r == [ meas |-> {Pin(polarity)} ]
             t == [ txcc |-> {Pin(polarity)}, cc_polarity |-> polarity ]
  <1>1. {Pin(polarity)} \in Chosen BY DEF Pin, Pins, Chosen
  <1>2. OneRegister(r) /\ {"gcrc", "txcc", "header"} \cap DOMAIN r = {}
    BY DEF OneRegister
  <1>3. OneRegister(t) /\ t["txcc"] \in Chosen /\ {"gcrc", "header"} \cap DOMAIN t = {}
    BY <1>1 DEF OneRegister
  <1> HIDE DEF r, t
  <1>4. \A w \in {r, t} : WellFormed(Write(w)) /\ Write(w).do = "write"
    BY <1>2, <1>3, WriteWellFormed
  <1>5. Plain(<< Write(r), Write(t) >>) BY <1>4 DEF Plain, Program
  <1> QED BY <1>5 DEF fusb302_tcpm_set_polarity, r, t

LEMMA SetHeaderPlain ==
    ASSUME NEW roles \in Headers
    PROVE  Plain(fusb302_tcpm_set_msg_header(roles[1], roles[2]))
  BY HeadersAssumption DEF Plain, Program, WellFormed, OneRegister, Write, Access, Measurements, fusb302_tcpm_set_msg_header

LEMMA SetRxEnablePlain ==
    ASSUME NEW c, NEW enable
    PROVE  Plain(fusb302_tcpm_set_rx_enable(c, enable))
  <1> USE DEF Plain, Program, WellFormed, OneRegister, Write, FlushRx, Access, Measurements
  <1>1. CASE enable = 1 BY <1>1 DEF fusb302_tcpm_set_rx_enable
  <1>2. CASE enable # 1 BY <1>2 DEF fusb302_tcpm_set_rx_enable
  <1> QED BY <1>1, <1>2

LEMMA MeasureSourcePlain ==
    ASSUME NEW c, NEW pin \in Pins
    PROVE  Plain(fusb302_measure_cc_pin_source(c, pin))
  BY DEF Plain, Program, WellFormed, OneRegister, Write, WriteBack, Access, Measurements, fusb302_measure_cc_pin_source

LEMMA DetectSinkPlain ==
    ASSUME NEW c
    PROVE  Plain(fusb302_detect_cc_pin_sink(c))
  BY DEF Plain, Program, WellFormed, OneRegister, Write, Access, Measurements, fusb302_detect_cc_pin_sink, Pins

LEMMA GetCcPlain ==
    ASSUME NEW c
    PROVE  Plain(fusb302_tcpm_get_cc(c))
  <1>1. 1 \in Pins /\ 2 \in Pins BY DEF Pins
  <1> QED BY <1>1, MeasureSourcePlain, DetectSinkPlain, PlainConcat DEF fusb302_tcpm_get_cc

LEMMA TransmitPlain ==
    ASSUME NEW type \in {"SOP", "HARD_RESET", "BIST"}
    PROVE  Plain(fusb302_tcpm_transmit(type))
  <1> USE DEF Plain, Program, WellFormed, OneRegister, Write, FlushTx, Access, Measurements
  <1>1. CASE type = "BIST" BY <1>1 DEF fusb302_tcpm_transmit
  <1>2. CASE type # "BIST" BY <1>2 DEF fusb302_tcpm_transmit
  <1> QED BY <1>1, <1>2

LEMMA GetMessagePlain == Plain(fusb302_tcpm_get_message)
  BY DEF Plain, Program, WellFormed, Access, Measurements, fusb302_tcpm_get_message

LEMMA InitPlain == Plain(fusb302_tcpm_init)
  <1> DEFINE p == << Access("sw_reset",
                       [ cc_polarity |-> -1,
                         mdac_vnc |-> TCPC_REG_MEASURE_MDAC_MV(1600),
                         mdac_rd |-> TCPC_REG_MEASURE_MDAC_MV(200) ]),
                     Write([ retries |-> 3 ]), Write([ bc_lvl |-> TRUE ]),
                     Write([ int_mask |-> FALSE ]) >>
             q == << Write([ gcrc |-> FALSE ]), Write([ on |-> TRUE ]) >>
  <1>1. Plain(p)
    BY DEF Plain, Program, WellFormed, OneRegister, Write, Access, Measurements
  <1>2. Plain(q)
    BY DEF Plain, Program, WellFormed, OneRegister, Write, Access, Measurements
  <1>3. Plain(fusb302_tcpm_set_polarity(0)) BY SetPolarityPlain
  <1> HIDE DEF p, q
  <1>4. Plain((p \o fusb302_tcpm_set_polarity(0)) \o q) BY <1>1, <1>2, <1>3, PlainConcat
  <1> QED BY <1>4 DEF fusb302_tcpm_init, p, q

LEMMA SetupPlain == Plain(Setup)
  <1> DEFINE p == << Write([ rx_enable |-> 0, meas |-> {} ]), Write([ bc_lvl |-> TRUE ]),
                     Write([ gcrc |-> FALSE ]) >>
             r == fusb302_tcpm_select_rp_value(CONFIG_USB_PD_PULLUP)
             s == fusb302_tcpm_set_cc("RD")
  <1>1. Plain(p)
    BY DEF Plain, Program, WellFormed, OneRegister, Write, Access, Measurements
  <1>2. Plain(r) /\ Plain(s) BY SelectRpPlain, SetCcPlain
  <1> HIDE DEF p, r, s
  <1>3. Plain((((fusb302_tcpm_init \o fusb302_tcpm_init) \o p) \o r) \o s)
    BY <1>1, <1>2, InitPlain, PlainConcat
  <1> QED BY <1>3 DEF Setup, p, r, s

----------------------------------------------------------------------------
(***************************************************************************)
(* Types.  They hold whether or not reads fail.  What is left of a call    *)
(* answers every interrupt that was read: the alert handler's last access  *)
(* is still to come, or a reset of the protocol engine for each Hard Reset *)
(* signal.                                                                 *)
(***************************************************************************)

Answers(p, s) ==
    \/ p # << >> /\ p[Len(p)].do = "handle"
    \/ \E i \in 1 .. Len(p) : p[i] = PdReset(s)

Handles(p, S) ==
    /\ Program(p)
    /\ \A i \in 1 .. Len(p) : p[i].do = "handle" => i = Len(p)
    /\ \A i \in 1 .. Len(p) : p[i].do = "read" => i < Len(p) /\ p[Len(p)].do = "handle"
    /\ \A s \in S : Answers(p, s)

TypeInv ==
    /\ rx_fifo \in Seq(Packets) /\ Len(rx_fifo) <= FifoDepth
    /\ tx \in {"none", "SOP", "HARD_RESET"}
    /\ ints \subseteq Interrupts /\ seen \subseteq Interrupts
    /\ got \in (0 .. 7) \X (0 .. 7)
    /\ steady \in BOOLEAN /\ cable \in Partners
    /\ Handles(todo, seen)

LEMMA PlainHandles ==
    ASSUME NEW p, Plain(p)
    PROVE  Handles(p, {})
  BY DEF Plain, Handles

LEMMA TailHandles ==
    ASSUME NEW p, NEW S, Handles(p, S), p # << >>, NEW S2 \in SUBSET S,
           p[1].do \notin {"handle", "read"}, p[1].do = "pd_reset" => p[1].arg \notin S2
    PROVE  Handles(Tail(p), S2)
  <1>1. Program(p) BY DEF Handles
  <1> DEFINE q == Tail(p)
  <1>2. /\ Len(p) \in Nat /\ Len(p) > 0 /\ Program(q) /\ Len(q) = Len(p) - 1
        /\ \A i \in 1 .. Len(q) : q[i] = p[i + 1] /\ i + 1 \in 1 .. Len(p)
    BY <1>1, ProgramTail
  <1> HIDE DEF q
  <1>3. \A i \in 1 .. Len(q) : q[i].do = "handle" => i = Len(q)
    BY <1>2 DEF Handles
  <1>4. ASSUME p[Len(p)].do = "handle" PROVE Len(q) \in 1 .. Len(q) /\ q[Len(q)].do = "handle"
    <2>1. Len(p) # 1 BY <1>4
    <2> QED BY <2>1, <1>2, <1>4
  <1>5. \A i \in 1 .. Len(q) : q[i].do = "read" => i < Len(q) /\ q[Len(q)].do = "handle"
    BY <1>2, <1>4 DEF Handles
  <1>6. ASSUME NEW s \in S2 PROVE Answers(q, s)
    <2>1. Answers(p, s) BY DEF Handles
    <2>2. CASE p[Len(p)].do = "handle"
      BY <2>2, <1>4, <1>2 DEF Answers
    <2>3. CASE \E i \in 1 .. Len(p) : p[i] = PdReset(s)
      <3>1. PICK i \in 1 .. Len(p) : p[i] = PdReset(s) BY <2>3
      <3>2. i # 1 BY <3>1 DEF PdReset, Access
      <3>3. i - 1 \in 1 .. Len(q) /\ q[i - 1] = p[i] BY <3>2, <1>2
      <3> QED BY <3>1, <3>3 DEF Answers
    <2> QED BY <2>1, <2>2, <2>3 DEF Answers
  <1> QED BY <1>2, <1>3, <1>5, <1>6 DEF Handles, q

LEMMA ReadHandles ==
    ASSUME NEW p, NEW S, Handles(p, S), p # << >>, p[1].do = "read", NEW S2
    PROVE  Handles(Tail(p), S2)
  <1>1. Program(p) BY DEF Handles
  <1> DEFINE q == Tail(p)
  <1>2. /\ Len(p) \in Nat /\ Len(p) > 0 /\ Program(q) /\ Len(q) = Len(p) - 1
        /\ \A i \in 1 .. Len(q) : q[i] = p[i + 1] /\ i + 1 \in 1 .. Len(p)
    BY <1>1, ProgramTail
  <1> HIDE DEF q
  <1>3. Len(p) > 1 /\ p[Len(p)].do = "handle" BY <1>2 DEF Handles
  <1>4. Len(q) \in 1 .. Len(q) /\ q[Len(q)].do = "handle" /\ q # << >>
    <2>1. Len(q) \in 1 .. Len(q) BY <1>2, <1>3
    <2> QED BY <2>1, <1>2, <1>3
  <1>5. ASSUME NEW i \in 1 .. Len(q), q[i].do = "handle" PROVE i = Len(q)
    <2>1. i + 1 \in 1 .. Len(p) /\ p[i + 1].do = "handle" BY <1>2, <1>5
    <2>2. i + 1 = Len(p) BY <2>1 DEF Handles
    <2> QED BY <2>2, <1>2
  <1>6. \A i \in 1 .. Len(q) : q[i].do = "read" => i < Len(q) /\ q[Len(q)].do = "handle"
    BY <1>2, <1>4 DEF Handles
  <1> QED BY <1>2, <1>4, <1>5, <1>6 DEF Handles, q, Answers

LEMMA AlertHandles == Handles(fusb302_tcpc_alert, {})
  <1> DEFINE p == fusb302_tcpc_alert
  <1>1. /\ Len(p) = 3 /\ p[1].do = "read" /\ p[2].do = "read" /\ p[3].do = "handle"
        /\ p = [i \in 1 .. 3 |-> p[i]]
        /\ p[1].arg = Signals /\ p[2].arg = {"GCRCSENT"}
    BY DEF fusb302_tcpc_alert, Access, Signals
  <1> HIDE DEF p
  <1>2. \A i \in 1 .. 3 : WellFormed(p[i])
    <2> TAKE i \in 1 .. 3
    <2>1. i = 1 \/ i = 2 \/ i = 3 OBVIOUS
    <2> QED BY <2>1, <1>1 DEF WellFormed, Measurements, Interrupts
  <1> QED BY <1>1, <1>2 DEF Handles, Program, p

\* The accesses by which the alert handler answers what it has read.
Answer(S, rd, flush) ==
    (IF "HARDSENT" \in S THEN << PdReset("HARDSENT") >> ELSE << >>)
       \o (IF "HARDRESET" \in S THEN << PdReset("HARDRESET") >> \o rd ELSE << >>)
       \o (IF flush THEN << FlushRx >> ELSE << >>)

LEMMA AnswerHandles ==
    ASSUME NEW S, NEW rd \in {<< >>, fusb302_tcpm_set_cc("RD")}, NEW flush \in BOOLEAN
    PROVE  Handles(Answer(S, rd, flush), S \cap Signals)
  <1> DEFINE a == IF "HARDSENT" \in S THEN << PdReset("HARDSENT") >> ELSE << >>
             r == << PdReset("HARDRESET") >>
             b == IF "HARDRESET" \in S THEN r \o rd ELSE << >>
             c == IF flush THEN << FlushRx >> ELSE << >>
             Mild(p) == Program(p) /\ \A i \in 1 .. Len(p) : p[i].do \notin {"read", "handle"}
  <1>1. Mild(<< >>) BY DEF Program
  <1>2. Mild(r) /\ (Mild(a) /\ ("HARDSENT" \in S => Len(a) = 1 /\ a[1] = PdReset("HARDSENT")))
    <2>1. ASSUME NEW s \in Signals PROVE Mild(<< PdReset(s) >>)
      BY DEF Program, PdReset, Access, WellFormed, Measurements
    <2>2. Mild(r) BY <2>1 DEF Signals
    <2> HIDE DEF Mild, r
    <2>3. CASE "HARDSENT" \in S
      <3>1. a = << PdReset("HARDSENT") >> BY <2>3
      <3> QED BY <3>1, <2>1, <2>2 DEF Signals
    <2>4. CASE "HARDSENT" \notin S BY <1>1, <2>2, <2>4
    <2> QED BY <2>3, <2>4
  <1>3. Mild(rd)
    <2>1. Mild(fusb302_tcpm_set_cc("RD")) BY SetCcPlain DEF Plain
    <2> QED BY <2>1, <1>1
  <1>4. Mild(c)
    <2>1. Mild(<< FlushRx >>)
      BY DEF Program, FlushRx, Access, WellFormed, Measurements
    <2> QED BY <2>1, <1>1
  <1>5. ASSUME NEW p, Mild(p), NEW q, Mild(q) PROVE Mild(p \o q)
    <2>1. Program(p) /\ Program(q) BY <1>5
    <2>2. Program(p \o q) BY <2>1, ProgramConcat
    <2>3. ASSUME NEW i \in 1 .. Len(p \o q)
          PROVE  (p \o q)[i].do \notin {"read", "handle"}
      <3>1. \/ i \in 1 .. Len(p) /\ (p \o q)[i] = p[i]
            \/ i - Len(p) \in 1 .. Len(q) /\ (p \o q)[i] = q[i - Len(p)]
        BY <2>1, ProgramConcat
      <3> QED BY <3>1, <1>5
    <2> QED BY <2>2, <2>3
  <1> HIDE DEF Mild
  <1>6. Mild(r \o rd) BY <1>2, <1>3, <1>5
  <1>7. Mild(b) BY <1>1, <1>6
  <1> DEFINE ab == a \o b
             abc == ab \o c
  <1> HIDE DEF a, b, c, ab, abc
  <1>8. Mild(ab) /\ Mild(abc) BY <1>2, <1>4, <1>5, <1>7 DEF ab, abc
  <1>9. ASSUME NEW s \in S \cap Signals PROVE \E i \in 1 .. Len(abc) : abc[i] = PdReset(s)
    <2>1. Program(a) /\ Program(b) /\ Program(c) /\ Program(ab) /\ Program(r) /\ Program(rd)
      BY <1>2, <1>3, <1>4, <1>7, <1>8 DEF Mild
    <2>2. \A i \in 1 .. Len(ab) : i \in 1 .. Len(abc) /\ abc[i] = ab[i]
      BY <2>1, ProgramConcat DEF abc
    <2>3. /\ \A i \in 1 .. Len(a) : i \in 1 .. Len(ab) /\ ab[i] = a[i]
          /\ \A i \in 1 .. Len(b) : Len(a) + i \in 1 .. Len(ab) /\ ab[Len(a) + i] = b[i]
      BY <2>1, ConcatFirst, ConcatSecond DEF ab
    <2>4. CASE s = "HARDSENT"
      <3>1. 1 \in 1 .. Len(a) /\ a[1] = PdReset(s) BY <1>2, <2>4
      <3> QED BY <3>1, <2>2, <2>3
    <2>5. CASE s = "HARDRESET"
      <3>1. Len(r) = 1 /\ r[1] = PdReset(s) BY <2>5
      <3>2. b = r \o rd BY <2>5 DEF b
      <3> HIDE DEF r
      <3>3. 1 \in 1 .. Len(b) /\ b[1] = PdReset(s)
        <4>1. 1 \in 1 .. Len(r) BY <3>1
        <4> QED BY <4>1, <3>1, <3>2, <2>1, ConcatFirst
      <3>4. Len(a) + 1 \in 1 .. Len(abc) /\ abc[Len(a) + 1] = PdReset(s)
        BY <3>3, <2>2, <2>3
      <3> QED BY <3>4
    <2> QED BY <2>4, <2>5 DEF Signals
  <1>10. Handles(abc, S \cap Signals) BY <1>8, <1>9 DEF Handles, Mild, Answers
  <1> QED BY <1>10 DEF Answer, abc, ab, a, b, c

LEMMA TypeInit == Init => TypeInv
  <1> SUFFICES ASSUME Init PROVE TypeInv OBVIOUS
  <1>3. <<0, 0>> \in (0 .. 7) \X (0 .. 7) OBVIOUS
  <1>1. Handles(Setup, {}) BY SetupPlain, PlainHandles
  <1>2. << >> \in Seq(Packets) /\ Len(<< >>) <= FifoDepth BY FifoAssumption
  <1> QED BY <1>1, <1>2, <1>3 DEF Init, TypeInv

LEMMA BcLvlRange ==
    ASSUME NEW c, NEW lost \in BOOLEAN
    PROVE  fusb302_convert_bc_lvl(c, IF lost THEN 3 ELSE BC_LVL(c)) \in 0 .. 7
  <1>1. BC_LVL(c) \in 0 .. 3 BY DEF BC_LVL
  <1> QED BY <1>1 DEF fusb302_convert_bc_lvl

LEMMA FifoTail ==
    ASSUME TypeInv, rx_fifo # << >>
    PROVE  /\ Tail(rx_fifo) \in Seq(Packets) /\ Len(Tail(rx_fifo)) <= FifoDepth
           /\ Len(rx_fifo) \in Nat /\ Len(rx_fifo) > 0 /\ rx_fifo[1] = Head(rx_fifo)
           /\ Len(Tail(rx_fifo)) = Len(rx_fifo) - 1
           /\ \A i \in 1 .. Len(Tail(rx_fifo)) : Tail(rx_fifo)[i] = rx_fifo[i + 1]
  <1>1. rx_fifo \in Seq(Packets) /\ Len(rx_fifo) <= FifoDepth BY DEF TypeInv
  <1>2. Len(rx_fifo) \in Nat /\ Len(rx_fifo) > 0 BY <1>1, EmptySeq
  <1>3. /\ Tail(rx_fifo) \in Seq(Packets) /\ Len(Tail(rx_fifo)) = Len(rx_fifo) - 1
        /\ \A i \in 1 .. Len(Tail(rx_fifo)) : Tail(rx_fifo)[i] = rx_fifo[i + 1]
    BY <1>1, HeadTailProperties
  <1> QED BY <1>1, <1>2, <1>3, FifoAssumption

LEMMA FifoAppend ==
    ASSUME TypeInv, Len(rx_fifo) < FifoDepth, NEW packet \in Packets
    PROVE  Append(rx_fifo, packet) \in Seq(Packets) /\ Len(Append(rx_fifo, packet)) <= FifoDepth
  <1>1. rx_fifo \in Seq(Packets) /\ Len(rx_fifo) \in Nat BY LenProperties DEF TypeInv
  <1>2. Append(rx_fifo, packet) \in Seq(Packets) /\ Len(Append(rx_fifo, packet)) = Len(rx_fifo) + 1
    BY <1>1, AppendProperties
  <1> QED BY <1>1, <1>2, FifoAssumption

\* What every access but "read", "handle" and "pd_reset" does to the rest of the call.
LEMMA ContinueHandles ==
    ASSUME TypeInv, NEW what, Do(what), what \notin {"handle", "read", "pd_reset"}
    PROVE  Handles(Tail(todo), seen)
  <1>1. Handles(todo, seen) BY DEF TypeInv
  <1>2. Program(todo) BY <1>1 DEF Handles
  <1>3. todo # << >> /\ todo[1].do = what BY <1>2, ProgramTail DEF Do
  <1> QED BY <1>1, <1>3, TailHandles

LEMMA BusTypes ==
    ASSUME TypeInv, Bus
    PROVE  TypeInv'
  <1>1. Handles(todo, seen) /\ Program(todo) BY DEF TypeInv, Handles
  <1>2. ASSUME todo # << >>
        PROVE  Head(todo) = todo[1] /\ WellFormed(todo[1]) /\ 1 \in 1 .. Len(todo)
    BY <1>1, <1>2, ProgramTail
  <1>3. CASE DoWrite \/ DoWriteBack
    <2>1. Handles(Tail(todo), seen) BY <1>3, ContinueHandles DEF DoWrite, DoWriteBack
    <2> QED BY <2>1, <1>3 DEF DoWrite, DoWriteBack, TypeInv, Continue
  <1>4. CASE DoSwReset
    <2>1. Handles(Tail(todo), seen) BY <1>4, ContinueHandles DEF DoSwReset
    <2>2. << >> \in Seq(Packets) /\ Len(<< >>) <= FifoDepth BY FifoAssumption
    <2> QED BY <2>1, <2>2, <1>4 DEF DoSwReset, TypeInv, Continue
  <1>5. CASE DoPdReset
    <2>1. todo # << >> /\ todo[1].do = "pd_reset" /\ Head(todo) = todo[1]
      BY <1>2, <1>5 DEF DoPdReset, Do
    <2>2. Handles(Tail(todo), seen \ {todo[1].arg})
      BY <1>1, <2>1, TailHandles
    <2>3. << >> \in Seq(Packets) /\ Len(<< >>) <= FifoDepth BY FifoAssumption
    <2> QED BY <2>1, <2>2, <2>3, <1>5 DEF DoPdReset, TypeInv, Continue
  <1>6. CASE DoFlushRx
    <2>1. Handles(Tail(todo), seen) BY <1>6, ContinueHandles DEF DoFlushRx
    <2>2. << >> \in Seq(Packets) /\ Len(<< >>) <= FifoDepth BY FifoAssumption
    <2> QED BY <2>1, <2>2, <1>6 DEF DoFlushRx, TypeInv, Continue
  <1>7. CASE DoFlushTx
    <2>1. Handles(Tail(todo), seen) BY <1>7, ContinueHandles DEF DoFlushTx
    <2> QED BY <2>1, <1>7 DEF DoFlushTx, TypeInv, Continue
  <1>8. CASE DoSend
    <2>1. Handles(Tail(todo), seen) BY <1>8, ContinueHandles DEF DoSend
    <2>2. todo # << >> /\ Head(todo).do = "send" BY <1>8 DEF DoSend, Do
    <2>3. Head(todo).arg \in {"none", "SOP", "HARD_RESET"} BY <2>2, <1>2 DEF WellFormed
    <2> QED BY <2>1, <2>3, <1>8 DEF DoSend, TypeInv, Continue
  <1>9. CASE DoComp
    <2>1. Handles(Tail(todo), seen) BY <1>9, ContinueHandles DEF DoComp
    <2>2. todo # << >> /\ Head(todo).do = "comp_vnc" BY <1>9 DEF DoComp, Do
    <2>3. Head(todo).arg \in Pins BY <2>2, <1>2 DEF WellFormed, Measurements
    <2>4. [got EXCEPT ![Head(todo).arg] = TYPEC_CC_VOLT_OPEN] \in (0 .. 7) \X (0 .. 7)
      BY <2>3 DEF TypeInv, Pins, TYPEC_CC_VOLT_OPEN
    <2>5. Handles(<< Access("comp_rd", Head(todo).arg) >> \o Tail(todo), seen)
      <3> DEFINE a == Access("comp_rd", Head(todo).arg)
                 q == Tail(todo)
      <3>1. WellFormed(a) /\ a.do = "comp_rd"
        BY <2>3 DEF Access, WellFormed, Measurements
      <3>2. Program(q) BY <2>1 DEF Handles
      <3> HIDE DEF a, q
      <3> DEFINE r == Cons(a, q)
      <3>3. /\ Program(r) /\ Len(r) = 1 + Len(q) /\ Len(q) \in Nat /\ r[1].do = "comp_rd"
            /\ \A i \in 1 .. Len(r) : i = 1 \/ (i - 1 \in 1 .. Len(q) /\ r[i] = q[i - 1])
            /\ \A i \in 1 .. Len(q) : 1 + i \in 1 .. Len(r) /\ r[1 + i] = q[i]
        BY <3>1, <3>2, ConsProgram
      <3> HIDE DEF r
      <3>4. Handles(q, seen) BY <2>1 DEF q
      <3>5. ASSUME q # << >>, q[Len(q)].do = "handle"
            PROVE  r # << >> /\ r[Len(r)].do = "handle" /\ 1 < Len(r)
        <4>1. Len(q) > 0 BY <3>2, <3>5, ProgramTail
        <4>2. Len(q) \in 1 .. Len(q) BY <4>1, <3>3
        <4> QED BY <4>1, <4>2, <3>3, <3>5
      <3>6. ASSUME NEW i \in 1 .. Len(r), r[i].do = "handle" PROVE i = Len(r)
        <4>1. i - 1 \in 1 .. Len(q) /\ q[i - 1].do = "handle" BY <3>6, <3>3
        <4>2. i - 1 = Len(q) BY <4>1, <3>4 DEF Handles
        <4> QED BY <4>2, <3>3
      <3>7. ASSUME NEW i \in 1 .. Len(r), r[i].do = "read"
            PROVE  i < Len(r) /\ r[Len(r)].do = "handle"
        <4>1. i - 1 \in 1 .. Len(q) /\ q[i - 1].do = "read" BY <3>7, <3>1, <3>3
        <4>2. i - 1 < Len(q) /\ q[Len(q)].do = "handle" BY <4>1, <3>4 DEF Handles
        <4>3. q # << >> BY <4>1
        <4> QED BY <4>1, <4>2, <4>3, <3>5, <3>3
      <3>8. ASSUME NEW s \in seen PROVE Answers(r, s)
        <4>1. Answers(q, s) BY <3>4 DEF Handles
        <4> QED BY <4>1, <3>5, <3>3 DEF Answers
      <3>9. Handles(r, seen) BY <3>3, <3>6, <3>7, <3>8 DEF Handles
      <3> QED BY <3>9 DEF Cons, a, q, r
    <2> QED BY <2>1, <2>4, <2>5, <1>9 DEF DoComp, TypeInv, Continue
  <1>10. CASE DoCompRd
    <2>1. Handles(Tail(todo), seen) BY <1>10, ContinueHandles DEF DoCompRd
    <2>2. todo # << >> /\ Head(todo).do = "comp_rd" BY <1>10 DEF DoCompRd, Do
    <2>3. Head(todo).arg \in Pins BY <2>2, <1>2 DEF WellFormed, Measurements
    <2>4. \A v \in 0 .. 7 : [got EXCEPT ![Head(todo).arg] = v] \in (0 .. 7) \X (0 .. 7)
      BY <2>3 DEF TypeInv, Pins
    <2>5. got' \in (0 .. 7) \X (0 .. 7)
      BY <2>4, <1>10 DEF DoCompRd, TYPEC_CC_VOLT_RD, TYPEC_CC_VOLT_RA
    <2> QED BY <2>1, <2>5, <1>10 DEF DoCompRd, TypeInv, Continue
  <1>11. CASE DoBcLvl
    <2>1. Handles(Tail(todo), seen) BY <1>11, ContinueHandles DEF DoBcLvl
    <2>2. todo # << >> /\ Head(todo).do = "bc_lvl" BY <1>11 DEF DoBcLvl, Do
    <2>3. Head(todo).arg \in Pins BY <2>2, <1>2 DEF WellFormed, Measurements
    <2>4. \A v \in 0 .. 7 : [got EXCEPT ![Head(todo).arg] = v] \in (0 .. 7) \X (0 .. 7)
      BY <2>3 DEF TypeInv, Pins
    <2>5. Lost \subseteq BOOLEAN BY ReadsFailAssumption DEF Lost
    <2>6. PICK lost \in Lost : got' = [got EXCEPT ![Head(todo).arg] =
                       fusb302_convert_bc_lvl(chip, IF lost THEN 3 ELSE BC_LVL(chip))]
      BY <1>11 DEF DoBcLvl
    <2>7. got' \in (0 .. 7) \X (0 .. 7) BY <2>4, <2>5, <2>6, BcLvlRange
    <2> QED BY <2>1, <2>7, <1>11 DEF DoBcLvl, TypeInv, Continue
  <1>12. CASE DoRead
    <2>1. todo # << >> /\ todo[1].do = "read" /\ Head(todo) = todo[1] /\ WellFormed(todo[1])
      BY <1>2, <1>12 DEF DoRead, Do
    <2>2. Handles(Tail(todo), seen') BY <1>1, <2>1, ReadHandles
    <2>3. Head(todo).arg \subseteq Interrupts BY <2>1 DEF WellFormed
    <2>4. seen' \subseteq Interrupts /\ ints' \subseteq Interrupts
      BY <2>3, <1>12 DEF DoRead, TypeInv
    <2> QED BY <2>2, <2>4, <1>12 DEF DoRead, TypeInv, Continue
  <1>13. CASE DoHandle
    <2>1. PICK rd \in {<< >>, fusb302_tcpm_set_cc("RD")} :
             todo' = Answer(seen, rd, "GCRCSENT" \in seen /\ chip.rx_enable = 0)
      BY <1>13 DEF DoHandle, Answer
    <2>2. Handles(todo', seen \cap Signals) BY <2>1, AnswerHandles
    <2>3. seen' = seen \cap Signals BY <1>13 DEF DoHandle, Signals
    <2> QED BY <2>2, <2>3, <1>13 DEF DoHandle, TypeInv
  <1>14. CASE DoTake
    <2>1. Handles(Tail(todo), seen) BY <1>14, ContinueHandles DEF DoTake
    <2>2. PICK empty \in {rx_fifo = << >>, rx_fifo = << >> \/ ReadsFail} :
             /\ rx_fifo' = IF empty THEN rx_fifo ELSE Tail(rx_fifo)
             /\ IF ~empty /\ Len(rx_fifo) > 1 /\ Head(rx_fifo) = "good_crc"
                THEN UNCHANGED todo ELSE Continue
      BY <1>14 DEF DoTake
    <2>3. rx_fifo' \in Seq(Packets) /\ Len(rx_fifo') <= FifoDepth
      <3>1. CASE empty BY <3>1, <2>2 DEF TypeInv
      <3>2. CASE ~empty BY <3>2, <2>2, FifoTail
      <3> QED BY <3>1, <3>2
    <2>4. Handles(todo', seen) BY <2>1, <2>2, <1>1 DEF Continue
    <2> QED BY <2>3, <2>4, <1>14 DEF DoTake, TypeInv
  <1> QED BY <1>3, <1>4, <1>5, <1>6, <1>7, <1>8, <1>9, <1>10, <1>11, <1>12, <1>13, <1>14
          DEF Bus

\* A call starts only when the one before is over, and so with nothing left to answer.
LEMMA CallTypes ==
    ASSUME TypeInv, NEW p, NEW c, Handles(p, {}), Call(p, c), steady' \in BOOLEAN
    PROVE  TypeInv'
  <1>1. seen = {}
    <2>1. \A s \in seen : Answers(<< >>, s) BY DEF TypeInv, Handles, Call
    <2>2. Len(<< >>) = 0 OBVIOUS
    <2> QED BY <2>1, <2>2 DEF Answers
  <1>2. <<TYPEC_CC_VOLT_OPEN, TYPEC_CC_VOLT_OPEN>> \in (0 .. 7) \X (0 .. 7)
    BY DEF TYPEC_CC_VOLT_OPEN
  <1> QED BY <1>1, <1>2 DEF Call, TypeInv

LEMMA ProtocolTypes ==
    ASSUME TypeInv, Protocol
    PROVE  TypeInv'
  <1>1. CASE GetCc
    BY <1>1, GetCcPlain, PlainHandles, CallTypes DEF GetCc
  <1>2. CASE SetPolarity /\ steady' = FALSE
    BY <1>2, SetPolarityPlain, PlainHandles, CallTypes DEF SetPolarity
  <1>3. CASE SetRxEnable /\ steady' = FALSE
    BY <1>3, SetRxEnablePlain, PlainHandles, CallTypes DEF SetRxEnable
  <1>4. CASE Others /\ steady' = FALSE
    <2>1. CASE \E pull \in {"RP", "RD"} : Call(fusb302_tcpm_set_cc(pull), chip)
      BY <1>4, <2>1, SetCcPlain, PlainHandles, CallTypes
    <2>2. CASE \E roles \in Headers : Call(fusb302_tcpm_set_msg_header(roles[1], roles[2]), chip)
      BY <1>4, <2>2, SetHeaderPlain, PlainHandles, CallTypes
    <2>3. CASE \E type \in {"SOP", "HARD_RESET", "BIST"} : Call(fusb302_tcpm_transmit(type), chip)
      BY <1>4, <2>3, TransmitPlain, PlainHandles, CallTypes
    <2>4. CASE Call(fusb302_tcpm_get_message, chip)
      BY <1>4, <2>4, GetMessagePlain, PlainHandles, CallTypes
    <2>5. CASE Call(fusb302_tcpc_alert, chip)
      BY <1>4, <2>5, AlertHandles, CallTypes
    <2> QED BY <1>4, <2>1, <2>2, <2>3, <2>4, <2>5 DEF Others
  <1> QED BY <1>1, <1>2, <1>3, <1>4 DEF Protocol

LEMMA OthersTypes ==
    ASSUME TypeInv, Reboot \/ PacketArrives \/ HardResetArrives \/ TxDone \/ Plug
    PROVE  TypeInv'
  <1>1. CASE Reboot
    <2>1. Handles(Setup, {}) BY SetupPlain, PlainHandles
    <2>2. <<TYPEC_CC_VOLT_OPEN, TYPEC_CC_VOLT_OPEN>> \in (0 .. 7) \X (0 .. 7)
      BY DEF TYPEC_CC_VOLT_OPEN
    <2> QED BY <1>1, <2>1, <2>2 DEF Reboot, TypeInv
  <1>2. CASE PacketArrives
    <2>1. (IF chip.gcrc THEN "acked" ELSE "unacked") \in Packets BY DEF Packets
    <2>2. rx_fifo' \in Seq(Packets) /\ Len(rx_fifo') <= FifoDepth
      BY <1>2, <2>1, FifoAppend DEF PacketArrives
    <2>3. ints' \subseteq Interrupts BY <1>2 DEF PacketArrives, TypeInv, Interrupts
    <2> QED BY <1>2, <2>2, <2>3 DEF PacketArrives, TypeInv
  <1>3. CASE HardResetArrives
    BY <1>3 DEF HardResetArrives, TypeInv, Interrupts, Signals
  <1>4. CASE TxDone
    <2>1. \A packet \in Packets : Len(rx_fifo) < FifoDepth =>
             Append(rx_fifo, packet) \in Seq(Packets) /\ Len(Append(rx_fifo, packet)) <= FifoDepth
      BY FifoAppend
    <2>2. "good_crc" \in Packets BY DEF Packets
    <2>3. rx_fifo' \in Seq(Packets) /\ Len(rx_fifo') <= FifoDepth
      BY <1>4, <2>1, <2>2 DEF TxDone, TxEnds, TypeInv
    <2>4. ints' \subseteq Interrupts
      BY <1>4 DEF TxDone, TxEnds, TypeInv, Interrupts, Signals
    <2> QED BY <1>4, <2>3, <2>4 DEF TxDone, TxEnds, TypeInv
  <1>5. CASE Plug
    BY <1>5 DEF Plug, TypeInv
  <1> QED BY <1>1, <1>2, <1>3, <1>4, <1>5

LEMMA TypeInvariant == Spec => []TypeInv
  <1>1. TypeInv /\ [Next]_vars => TypeInv'
    <2> SUFFICES ASSUME TypeInv, [Next]_vars PROVE TypeInv' OBVIOUS
    <2>1. CASE Next BY <2>1, BusTypes, ProtocolTypes, OthersTypes DEF Next
    <2>2. CASE UNCHANGED vars BY <2>2 DEF vars, TypeInv
    <2> QED BY <2>1, <2>2
  <1> QED BY <1>1, TypeInit, PTL DEF Spec

\* The FIFO never holds more packets than it can, a CC voltage is one of Type-C, and
\* when the alert handler is done it has dealt with every interrupt it read, whether
\* or not reads fail (fusb302_tcpc_alert, fusb302_tcpm_get_cc).
THEOREM ChipTypeCorrect == Spec => []ChipTypeOK
  <1>1. TypeInv => ChipTypeOK
    <2> SUFFICES ASSUME TypeInv PROVE ChipTypeOK OBVIOUS
    <2>1. ASSUME todo = << >> PROVE seen = {}
      <3>1. \A s \in seen : Answers(<< >>, s) BY <2>1 DEF TypeInv, Handles
      <3>2. Len(<< >>) = 0 OBVIOUS
      <3> QED BY <3>1, <3>2 DEF Answers
    <2> QED BY <2>1 DEF TypeInv, ChipTypeOK, Idle, Packets, Interrupts, Signals
  <1> QED BY <1>1, TypeInvariant, PTL

----------------------------------------------------------------------------
(***************************************************************************)
(* What the registers will be.  Field f settles at v when the last of the  *)
(* accesses to come that writes f writes v, or f is v and none writes it.  *)
(***************************************************************************)

ChipFields == DOMAIN ResetRegisters \cup DOMAIN ZeroedMemory

Gives(a, f, v) == f \in DOMAIN Written(a) /\ Written(a)[f] = v

Untouched(p, f) == \A i \in 1 .. Len(p) : f \notin DOMAIN Written(p[i])

Ends(p, f, v) ==
    \E k \in 1 .. Len(p) :
        /\ Gives(p[k], f, v)
        /\ \A i \in k + 1 .. Len(p) : f \notin DOMAIN Written(p[i])

Settles(c, p, f, v) == Ends(p, f, v) \/ (c[f] = v /\ Untouched(p, f))

LEMMA EmptySettles ==
    ASSUME NEW c, NEW f, NEW v, Settles(c, << >>, f, v)
    PROVE  c[f] = v
  <1>1. Len(<< >>) = 0 OBVIOUS
  <1> QED BY <1>1 DEF Settles, Ends

\* An access carries out what it was counted on for.
LEMMA StepSettles ==
    ASSUME NEW p, Program(p), p # << >>, NEW c, NEW c2, NEW f, NEW v,
           c2[f] = IF f \in DOMAIN Written(p[1]) THEN Written(p[1])[f] ELSE c[f],
           Settles(c, p, f, v)
    PROVE  Settles(c2, Tail(p), f, v)
  <1> DEFINE q == Tail(p)
  <1>1. /\ Len(p) \in Nat /\ Len(p) > 0 /\ Len(q) = Len(p) - 1
        /\ \A i \in 1 .. Len(q) : q[i] = p[i + 1] /\ i + 1 \in 1 .. Len(p)
    BY ProgramTail
  <1> HIDE DEF q
  <1>2. CASE c[f] = v /\ Untouched(p, f)
    <2>1. Untouched(q, f) BY <1>1, <1>2 DEF Untouched
    <2>2. 1 \in 1 .. Len(p) BY <1>1
    <2> QED BY <2>1, <2>2, <1>2 DEF Settles, Untouched, q
  <1>3. CASE Ends(p, f, v)
    <2>1. PICK k \in 1 .. Len(p) :
             Gives(p[k], f, v) /\ \A i \in k + 1 .. Len(p) : f \notin DOMAIN Written(p[i])
      BY <1>3 DEF Ends
    <2>2. CASE k = 1
      <3>1. Untouched(q, f) BY <1>1, <2>1, <2>2 DEF Untouched
      <3>2. c2[f] = v BY <2>1, <2>2 DEF Gives
      <3> QED BY <3>1, <3>2 DEF Settles, q
    <2>3. CASE k # 1
      <3>1. k - 1 \in 1 .. Len(q) /\ q[k - 1] = p[k] BY <1>1, <2>3
      <3>2. \A i \in (k - 1) + 1 .. Len(q) : f \notin DOMAIN Written(q[i]) BY <1>1, <2>1
      <3> QED BY <3>1, <3>2, <2>1 DEF Settles, Ends, q
    <2> QED BY <2>2, <2>3
  <1> QED BY <1>2, <1>3 DEF Settles

LEMMA ReplaceSettles ==
    ASSUME NEW p, NEW r, NEW c, NEW f, NEW v, Settles(c, p, f, v),
           Len(p) = Len(r),
           \A i \in 1 .. Len(p) : f \in DOMAIN Written(p[i]) \cup DOMAIN Written(r[i]) => p[i] = r[i]
    PROVE  Settles(c, r, f, v)
  BY DEF Settles, Ends, Untouched, Gives

LEMMA UntouchedConcat ==
    ASSUME NEW p, Program(p), NEW q, Program(q), NEW f, Untouched(p, f), Untouched(q, f)
    PROVE  Untouched(p \o q, f)
  <1>1. \A i \in 1 .. Len(p \o q) :
           \/ i \in 1 .. Len(p) /\ (p \o q)[i] = p[i]
           \/ i - Len(p) \in 1 .. Len(q) /\ (p \o q)[i] = q[i - Len(p)]
    BY ProgramConcat
  <1> QED BY <1>1 DEF Untouched

LEMMA EndsConcat ==
    ASSUME NEW p, Program(p), NEW q, Program(q), NEW f, NEW v,
           Ends(q, f, v) \/ (Ends(p, f, v) /\ Untouched(q, f))
    PROVE  Ends(p \o q, f, v)
  <1> DEFINE r == p \o q
  <1>1. /\ Len(p) \in Nat /\ Len(q) \in Nat /\ Len(r) = Len(p) + Len(q)
        /\ \A i \in 1 .. Len(r) :
              \/ i \in 1 .. Len(p) /\ r[i] = p[i]
              \/ i - Len(p) \in 1 .. Len(q) /\ r[i] = q[i - Len(p)]
        /\ \A i \in 1 .. Len(p) : i \in 1 .. Len(r) /\ r[i] = p[i]
        /\ \A i \in 1 .. Len(q) : Len(p) + i \in 1 .. Len(r) /\ r[Len(p) + i] = q[i]
    <2>1. Len(p) \in Nat /\ Len(q) \in Nat /\ Len(r) = Len(p) + Len(q)
      BY ProgramConcat
    <2>2. \A i \in 1 .. Len(r) :
             \/ i \in 1 .. Len(p) /\ r[i] = p[i]
             \/ i - Len(p) \in 1 .. Len(q) /\ r[i] = q[i - Len(p)]
      BY ProgramConcat
    <2>3. \A i \in 1 .. Len(p) : i \in 1 .. Len(r) /\ r[i] = p[i]
      BY ConcatFirst
    <2>4. \A i \in 1 .. Len(q) : Len(p) + i \in 1 .. Len(r) /\ r[Len(p) + i] = q[i]
      BY ConcatSecond
    <2> HIDE DEF r
    <2> QED BY <2>1, <2>2, <2>3, <2>4, Zenon
  <1> HIDE DEF r
  <1>2. CASE Ends(q, f, v)
    <2>1. PICK k \in 1 .. Len(q) :
             Gives(q[k], f, v) /\ \A i \in k + 1 .. Len(q) : f \notin DOMAIN Written(q[i])
      BY <1>2 DEF Ends
    <2>2. Len(p) + k \in 1 .. Len(r) /\ Gives(r[Len(p) + k], f, v) BY <1>1, <2>1
    <2>3. \A i \in (Len(p) + k) + 1 .. Len(r) : f \notin DOMAIN Written(r[i])
      <3> TAKE i \in (Len(p) + k) + 1 .. Len(r)
      <3>1. i \in 1 .. Len(r) /\ i \notin 1 .. Len(p) BY <1>1
      <3>2. i - Len(p) \in 1 .. Len(q) /\ r[i] = q[i - Len(p)] BY <1>1, <3>1
      <3>3. i - Len(p) \in k + 1 .. Len(q) BY <1>1, <3>2
      <3> QED BY <3>2, <3>3, <2>1
    <2> QED BY <2>2, <2>3 DEF Ends, r
  <1>3. CASE Ends(p, f, v) /\ Untouched(q, f)
    <2>1. PICK k \in 1 .. Len(p) :
             Gives(p[k], f, v) /\ \A i \in k + 1 .. Len(p) : f \notin DOMAIN Written(p[i])
      BY <1>3 DEF Ends
    <2>2. k \in 1 .. Len(r) /\ Gives(r[k], f, v) BY <1>1, <2>1
    <2>3. \A i \in k + 1 .. Len(r) : f \notin DOMAIN Written(r[i])
      <3> TAKE i \in k + 1 .. Len(r)
      <3>1. i \in 1 .. Len(r) BY <1>1
      <3> QED BY <3>1, <1>1, <1>3, <2>1 DEF Untouched
    <2> QED BY <2>2, <2>3 DEF Ends, r
  <1> QED BY <1>2, <1>3

----------------------------------------------------------------------------
\* What each call leaves in the registers.

LEMMA WriteWrites ==
    ASSUME NEW fields
    PROVE  Written(Write(fields)) = fields /\ Written(WriteBack(fields)) = fields
  BY DEF Written, Write, WriteBack, Access

LEMMA OthersWriteNothing ==
    ASSUME NEW a, a.do \notin {"write", "write_back", "sw_reset", "flush_rx"}
    PROVE  DOMAIN Written(a) = {}
  BY DEF Written

LEMMA SetCcWrites ==
    ASSUME NEW pull
    PROVE  /\ pull = "RP" => /\ Ends(fusb302_tcpm_set_cc(pull), "pulling_up", 1)
                             /\ Ends(fusb302_tcpm_set_cc(pull), "pu", Pins)
                             /\ Ends(fusb302_tcpm_set_cc(pull), "pd", {})
           /\ pull # "RP" => /\ Ends(fusb302_tcpm_set_cc(pull), "pulling_up", 0)
                             /\ Ends(fusb302_tcpm_set_cc(pull), "pu", {})
                             /\ Ends(fusb302_tcpm_set_cc(pull), "pd", Pins)
           /\ \A f : f \notin {"pulling_up", "pu", "pd"} => Untouched(fusb302_tcpm_set_cc(pull), f)
  BY WriteWrites DEF fusb302_tcpm_set_cc, Ends, Gives, Untouched

LEMMA SelectRpWrites ==
    ASSUME NEW rp
    PROVE  /\ Ends(fusb302_tcpm_select_rp_value(rp), "host_cur", rp)
           /\ Ends(fusb302_tcpm_select_rp_value(rp), "mdac_vnc",
                   TCPC_REG_MEASURE_MDAC_MV(IF rp = "3A0" THEN 2600 ELSE 1600))
           /\ Ends(fusb302_tcpm_select_rp_value(rp), "mdac_rd",
                   TCPC_REG_MEASURE_MDAC_MV(CASE rp = "3A0" -> 800 [] rp = "1A5" -> 400 [] OTHER -> 200))
           /\ \A f : f \notin {"host_cur", "mdac_vnc", "mdac_rd"} =>
                 Untouched(fusb302_tcpm_select_rp_value(rp), f)
  BY WriteWrites DEF fusb302_tcpm_select_rp_value, Ends, Gives, Untouched

LEMMA SetPolarityWrites ==
    ASSUME NEW polarity
    PROVE  /\ Ends(fusb302_tcpm_set_polarity(polarity), "txcc", {Pin(polarity)})
           /\ Ends(fusb302_tcpm_set_polarity(polarity), "cc_polarity", polarity)
           /\ Ends(fusb302_tcpm_set_polarity(polarity), "meas", {Pin(polarity)})
           /\ \A f : f \notin {"meas", "txcc", "cc_polarity"} =>
                 Untouched(fusb302_tcpm_set_polarity(polarity), f)
  BY WriteWrites DEF fusb302_tcpm_set_polarity, Ends, Gives, Untouched

LEMMA SetHeaderWrites ==
    ASSUME NEW pr, NEW dr, NEW f, f # "header"
    PROVE  Untouched(fusb302_tcpm_set_msg_header(pr, dr), f)
  BY WriteWrites DEF fusb302_tcpm_set_msg_header, Untouched

LEMMA FlushRxWrites == Written(FlushRx) = [bist2 |-> FALSE]
  BY DEF Written, FlushRx, Access

LEMMA EnableWrites ==
    ASSUME NEW c
    PROVE  /\ Ends(fusb302_tcpm_set_rx_enable(c, 1), "gcrc", TRUE)
           /\ Ends(fusb302_tcpm_set_rx_enable(c, 1), "bc_lvl", FALSE)
           /\ Ends(fusb302_tcpm_set_rx_enable(c, 1), "bist2", FALSE)
           /\ Ends(fusb302_tcpm_set_rx_enable(c, 1), "meas", {Pin(c.cc_polarity)})
           /\ \A f : f \notin {"gcrc", "bc_lvl", "bist2", "meas"} =>
                 Untouched(fusb302_tcpm_set_rx_enable(c, 1), f)
  BY WriteWrites, FlushRxWrites DEF fusb302_tcpm_set_rx_enable, Ends, Gives, Untouched

LEMMA DisableWrites ==
    ASSUME NEW c
    PROVE  /\ Ends(fusb302_tcpm_set_rx_enable(c, 0), "gcrc", FALSE)
           /\ Ends(fusb302_tcpm_set_rx_enable(c, 0), "bc_lvl", TRUE)
           /\ \A f : f \notin {"gcrc", "bc_lvl", "meas"} =>
                 Untouched(fusb302_tcpm_set_rx_enable(c, 0), f)
  BY WriteWrites, FlushRxWrites DEF fusb302_tcpm_set_rx_enable, Ends, Gives, Untouched

LEMMA MeasureWrites ==
    ASSUME NEW c, NEW pin
    PROVE  /\ Ends(fusb302_measure_cc_pin_source(c, pin), "meas", c.meas)
           /\ Ends(fusb302_measure_cc_pin_source(c, pin), "pu", c.pu)
           /\ \A f : f \notin {"meas", "pu"} => Untouched(fusb302_measure_cc_pin_source(c, pin), f)
  BY WriteWrites, OthersWriteNothing DEF fusb302_measure_cc_pin_source, Ends, Gives, Untouched, Access

LEMMA DetectWrites ==
    ASSUME NEW c
    PROVE  /\ Ends(fusb302_detect_cc_pin_sink(c), "meas", c.meas)
           /\ \A f : f # "meas" => Untouched(fusb302_detect_cc_pin_sink(c), f)
  BY WriteWrites, OthersWriteNothing DEF fusb302_detect_cc_pin_sink, Ends, Gives, Untouched, Access

\* A measurement restores whatever it changes.
LEMMA GetCcRestores ==
    ASSUME NEW c, NEW f
    PROVE  Settles(c, fusb302_tcpm_get_cc(c), f, c[f])
  <1>1. CASE c.pulling_up = 1
    <2>1. Program(fusb302_measure_cc_pin_source(c, 1)) /\ Program(fusb302_measure_cc_pin_source(c, 2))
      BY MeasureSourcePlain DEF Plain, Pins
    <2>2. CASE f \in {"meas", "pu"}
      BY <2>1, <2>2, <1>1, MeasureWrites, EndsConcat DEF Settles, fusb302_tcpm_get_cc
    <2>3. CASE f \notin {"meas", "pu"}
      BY <2>1, <2>3, <1>1, MeasureWrites, UntouchedConcat DEF Settles, fusb302_tcpm_get_cc
    <2> QED BY <2>2, <2>3
  <1>2. CASE c.pulling_up # 1
    BY <1>2, DetectWrites DEF Settles, fusb302_tcpm_get_cc
  <1> QED BY <1>1, <1>2

LEMMA TransmitRestores ==
    ASSUME NEW c, c.bist2 = FALSE, NEW type, NEW f
    PROVE  Settles(c, fusb302_tcpm_transmit(type), f, c[f])
  <1>1. CASE type = "BIST"
    <2>1. Ends(fusb302_tcpm_transmit(type), "bist2", FALSE)
      BY <1>1, WriteWrites DEF fusb302_tcpm_transmit, Ends, Gives
    <2>2. f # "bist2" => Untouched(fusb302_tcpm_transmit(type), f)
      BY <1>1, WriteWrites, OthersWriteNothing DEF fusb302_tcpm_transmit, Untouched, FlushTx, Access
    <2> QED BY <2>1, <2>2 DEF Settles
  <1>2. CASE type # "BIST"
    <2>1. Untouched(fusb302_tcpm_transmit(type), f)
      BY <1>2, OthersWriteNothing DEF fusb302_tcpm_transmit, Untouched, FlushTx, Access
    <2> QED BY <2>1 DEF Settles
  <1> QED BY <1>1, <1>2

LEMMA MessageAndAlertWriteNothing ==
    ASSUME NEW f
    PROVE  Untouched(fusb302_tcpm_get_message, f) /\ Untouched(fusb302_tcpc_alert, f)
  BY OthersWriteNothing DEF fusb302_tcpm_get_message, fusb302_tcpc_alert, Untouched, Access

LEMMA InitWrites ==
    /\ Ends(fusb302_tcpm_init, "on", TRUE) /\ Ends(fusb302_tcpm_init, "int_mask", FALSE)
    /\ Ends(fusb302_tcpm_init, "bist2", FALSE) /\ Ends(fusb302_tcpm_init, "txcc", {1})
    /\ Ends(fusb302_tcpm_init, "cc_polarity", 0)
  <1> DEFINE a == Access("sw_reset",
                       [ cc_polarity |-> -1,
                         mdac_vnc |-> TCPC_REG_MEASURE_MDAC_MV(1600),
                         mdac_rd |-> TCPC_REG_MEASURE_MDAC_MV(200) ])
             p == << a, Write([ retries |-> 3 ]), Write([ bc_lvl |-> TRUE ]),
                     Write([ int_mask |-> FALSE ]) >>
             s == fusb302_tcpm_set_polarity(0)
             q == << Write([ gcrc |-> FALSE ]), Write([ on |-> TRUE ]) >>
  <1>1. Program(p) /\ Program(q)
    BY DEF Program, WellFormed, OneRegister, Write, Access, Measurements
  <1>2. Program(s) BY SetPolarityPlain DEF Plain
  <1>3. Gives(a, "bist2", FALSE)
    BY DEF Gives, Written, Access, ResetRegisters
  <1> HIDE DEF a
  <1>4. Ends(p, "bist2", FALSE) /\ Ends(p, "int_mask", FALSE)
    BY <1>3, WriteWrites DEF Ends, Gives
  <1>5. /\ Ends(q, "on", TRUE)
        /\ \A f : f \notin {"gcrc", "on"} => Untouched(q, f)
    BY WriteWrites DEF Ends, Gives, Untouched
  <1>6. /\ Ends(s, "txcc", {1}) /\ Ends(s, "cc_polarity", 0)
        /\ Untouched(s, "bist2") /\ Untouched(s, "int_mask")
    BY SetPolarityWrites DEF Pin
  <1> HIDE DEF p, q, s
  <1>7. Program(p \o s) BY <1>1, <1>2, ProgramConcat
  <1>8. /\ Ends(p \o s, "bist2", FALSE) /\ Ends(p \o s, "int_mask", FALSE)
        /\ Ends(p \o s, "txcc", {1}) /\ Ends(p \o s, "cc_polarity", 0)
    BY <1>1, <1>2, <1>4, <1>6, EndsConcat
  <1>9. /\ Ends((p \o s) \o q, "on", TRUE) /\ Ends((p \o s) \o q, "int_mask", FALSE)
        /\ Ends((p \o s) \o q, "bist2", FALSE) /\ Ends((p \o s) \o q, "txcc", {1})
        /\ Ends((p \o s) \o q, "cc_polarity", 0)
    <2>1. \A f, v : Ends(p \o s, f, v) /\ f \notin {"gcrc", "on"} => Ends((p \o s) \o q, f, v)
      BY <1>1, <1>5, <1>7, EndsConcat
    <2>2. Ends((p \o s) \o q, "on", TRUE) BY <1>1, <1>5, <1>7, EndsConcat
    <2> QED BY <2>1, <2>2, <1>8
  <1> QED BY <1>9 DEF fusb302_tcpm_init, p, q, s, a

\* Wherever the firmware was interrupted, setup and pd_init bring every register and
\* the driver's memory into a known state.
LEMMA SetupWrites ==
    /\ Ends(Setup, "on", TRUE) /\ Ends(Setup, "int_mask", FALSE) /\ Ends(Setup, "bist2", FALSE)
    /\ Ends(Setup, "rx_enable", 0) /\ Ends(Setup, "gcrc", FALSE) /\ Ends(Setup, "bc_lvl", TRUE)
    /\ Ends(Setup, "txcc", {1}) /\ Ends(Setup, "cc_polarity", 0)
    /\ Ends(Setup, "pulling_up", 0) /\ Ends(Setup, "pu", {}) /\ Ends(Setup, "pd", Pins)
    /\ Ends(Setup, "host_cur", CONFIG_USB_PD_PULLUP)
    /\ Ends(Setup, "mdac_vnc",
            TCPC_REG_MEASURE_MDAC_MV(IF CONFIG_USB_PD_PULLUP = "3A0" THEN 2600 ELSE 1600))
    /\ Ends(Setup, "mdac_rd",
            TCPC_REG_MEASURE_MDAC_MV(CASE CONFIG_USB_PD_PULLUP = "3A0" -> 800
                                       [] CONFIG_USB_PD_PULLUP = "1A5" -> 400 [] OTHER -> 200))
  <1> DEFINE i == fusb302_tcpm_init
             d == << Write([ rx_enable |-> 0, meas |-> {} ]), Write([ bc_lvl |-> TRUE ]),
                     Write([ gcrc |-> FALSE ]) >>
             r == fusb302_tcpm_select_rp_value(CONFIG_USB_PD_PULLUP)
             s == fusb302_tcpm_set_cc("RD")
             x == i \o i
             y == x \o d
             z == y \o r
             vnc == TCPC_REG_MEASURE_MDAC_MV(IF CONFIG_USB_PD_PULLUP = "3A0" THEN 2600 ELSE 1600)
             rd == TCPC_REG_MEASURE_MDAC_MV(CASE CONFIG_USB_PD_PULLUP = "3A0" -> 800
                                       [] CONFIG_USB_PD_PULLUP = "1A5" -> 400 [] OTHER -> 200)
  <1>1. Program(d)
    BY DEF Program, WellFormed, OneRegister, Write, Access, Measurements
  <1>2. /\ Ends(d, "rx_enable", 0) /\ Ends(d, "bc_lvl", TRUE) /\ Ends(d, "gcrc", FALSE)
        /\ \A f : f \notin {"rx_enable", "meas", "bc_lvl", "gcrc"} => Untouched(d, f)
    BY WriteWrites DEF Ends, Gives, Untouched
  <1>3. /\ Ends(r, "host_cur", CONFIG_USB_PD_PULLUP) /\ Ends(r, "mdac_vnc", vnc)
        /\ Ends(r, "mdac_rd", rd)
        /\ \A f : f \notin {"host_cur", "mdac_vnc", "mdac_rd"} => Untouched(r, f)
    BY SelectRpWrites
  <1>4. /\ Ends(s, "pulling_up", 0) /\ Ends(s, "pu", {}) /\ Ends(s, "pd", Pins)
        /\ \A f : f \notin {"pulling_up", "pu", "pd"} => Untouched(s, f)
    BY SetCcWrites
  <1>5. Program(i) /\ Program(r) /\ Program(s)
    BY InitPlain, SelectRpPlain, SetCcPlain DEF Plain
  <1>6. /\ Ends(i, "on", TRUE) /\ Ends(i, "int_mask", FALSE) /\ Ends(i, "bist2", FALSE)
        /\ Ends(i, "txcc", {1}) /\ Ends(i, "cc_polarity", 0)
    BY InitWrites
  <1> HIDE DEF i, d, r, s, vnc, rd
  <1>7. Program(x) BY <1>5, ProgramConcat
  <1>8. /\ Ends(x, "on", TRUE) /\ Ends(x, "int_mask", FALSE) /\ Ends(x, "bist2", FALSE)
        /\ Ends(x, "txcc", {1}) /\ Ends(x, "cc_polarity", 0)
    BY <1>5, <1>6, EndsConcat
  <1> HIDE DEF x
  <1>9. Program(y) BY <1>1, <1>7, ProgramConcat
  <1>10. /\ Ends(y, "on", TRUE) /\ Ends(y, "int_mask", FALSE) /\ Ends(y, "bist2", FALSE)
         /\ Ends(y, "txcc", {1}) /\ Ends(y, "cc_polarity", 0)
         /\ Ends(y, "rx_enable", 0) /\ Ends(y, "bc_lvl", TRUE) /\ Ends(y, "gcrc", FALSE)
    <2>1. \A f, v : Ends(x, f, v) /\ f \notin {"rx_enable", "meas", "bc_lvl", "gcrc"} => Ends(y, f, v)
      BY <1>1, <1>2, <1>7, EndsConcat
    <2>2. \A f, v : Ends(d, f, v) => Ends(y, f, v) BY <1>1, <1>7, EndsConcat
    <2> QED BY <2>1, <2>2, <1>2, <1>8
  <1> HIDE DEF y
  <1>11. Program(z) BY <1>5, <1>9, ProgramConcat
  <1>12. /\ Ends(z, "on", TRUE) /\ Ends(z, "int_mask", FALSE) /\ Ends(z, "bist2", FALSE)
         /\ Ends(z, "txcc", {1}) /\ Ends(z, "cc_polarity", 0)
         /\ Ends(z, "rx_enable", 0) /\ Ends(z, "bc_lvl", TRUE) /\ Ends(z, "gcrc", FALSE)
         /\ Ends(z, "host_cur", CONFIG_USB_PD_PULLUP) /\ Ends(z, "mdac_vnc", vnc)
         /\ Ends(z, "mdac_rd", rd)
    <2>1. \A f, v : Ends(y, f, v) /\ f \notin {"host_cur", "mdac_vnc", "mdac_rd"} => Ends(z, f, v)
      BY <1>3, <1>5, <1>9, EndsConcat
    <2>2. \A f, v : Ends(r, f, v) => Ends(z, f, v) BY <1>5, <1>9, EndsConcat
    <2> QED BY <2>1, <2>2, <1>3, <1>10
  <1> HIDE DEF z
  <1>13. \A f, v : Ends(z, f, v) /\ f \notin {"pulling_up", "pu", "pd"} => Ends(z \o s, f, v)
    BY <1>4, <1>5, <1>11, EndsConcat
  <1>14. /\ Ends(z \o s, "pulling_up", 0) /\ Ends(z \o s, "pu", {}) /\ Ends(z \o s, "pd", Pins)
    BY <1>4, <1>5, <1>11, EndsConcat
  <1>15. Setup = z \o s BY DEF Setup, z, y, x, i, d, r, s
  <1>16. /\ Ends(Setup, "on", TRUE) /\ Ends(Setup, "int_mask", FALSE) /\ Ends(Setup, "bist2", FALSE)
         /\ Ends(Setup, "txcc", {1}) /\ Ends(Setup, "cc_polarity", 0)
         /\ Ends(Setup, "rx_enable", 0) /\ Ends(Setup, "bc_lvl", TRUE) /\ Ends(Setup, "gcrc", FALSE)
         /\ Ends(Setup, "host_cur", CONFIG_USB_PD_PULLUP) /\ Ends(Setup, "mdac_vnc", vnc)
         /\ Ends(Setup, "mdac_rd", rd)
    BY <1>12, <1>13, <1>15
  <1>17. Ends(Setup, "pulling_up", 0) /\ Ends(Setup, "pu", {}) /\ Ends(Setup, "pd", Pins)
    BY <1>14, <1>15
  <1> QED BY <1>16, <1>17, Zenon DEF vnc, rd

LEMMA AnswerWrites ==
    ASSUME NEW S, NEW rd \in {<< >>, fusb302_tcpm_set_cc("RD")}, NEW flush \in BOOLEAN
    PROVE  /\ \A f : f \notin {"pulling_up", "pu", "pd", "bist2"} => Untouched(Answer(S, rd, flush), f)
           /\ Untouched(Answer(S, rd, flush), "bist2") \/ Ends(Answer(S, rd, flush), "bist2", FALSE)
           /\ \/ \A f \in {"pulling_up", "pu", "pd"} : Untouched(Answer(S, rd, flush), f)
              \/ /\ Ends(Answer(S, rd, flush), "pulling_up", 0)
                 /\ Ends(Answer(S, rd, flush), "pu", {})
                 /\ Ends(Answer(S, rd, flush), "pd", Pins)
  <1> DEFINE a == IF "HARDSENT" \in S THEN << PdReset("HARDSENT") >> ELSE << >>
             r == << PdReset("HARDRESET") >>
             b == IF "HARDRESET" \in S THEN r \o rd ELSE << >>
             c == IF flush THEN << FlushRx >> ELSE << >>
             Pulls(p) == \/ \A f \in {"pulling_up", "pu", "pd"} : Untouched(p, f)
                         \/ Ends(p, "pulling_up", 0) /\ Ends(p, "pu", {}) /\ Ends(p, "pd", Pins)
             Rest(p) == \A f : f \notin {"pulling_up", "pu", "pd"} => Untouched(p, f)
  <1>1. Program(<< >>) /\ \A f : Untouched(<< >>, f) BY DEF Program, Untouched
  <1>2. ASSUME NEW s \in Signals PROVE Program(<< PdReset(s) >>) /\ \A f : Untouched(<< PdReset(s) >>, f)
    BY OthersWriteNothing DEF Program, PdReset, Access, WellFormed, Measurements, Untouched
  <1>3. Program(a) /\ \A f : Untouched(a, f) BY <1>1, <1>2 DEF Signals
  <1>4. Program(r) /\ \A f : Untouched(r, f) BY <1>2 DEF Signals
  <1>5. Program(rd) /\ Pulls(rd) /\ Rest(rd)
    <2>1. CASE rd = << >> BY <2>1, <1>1
    <2>2. CASE rd = fusb302_tcpm_set_cc("RD") BY <2>2, SetCcPlain, SetCcWrites DEF Plain
    <2> QED BY <2>1, <2>2
  <1>6. Program(c) /\ (Untouched(c, "bist2") \/ Ends(c, "bist2", FALSE)) /\ \A f : f # "bist2" => Untouched(c, f)
    <2>1. CASE flush
      <3>1. Program(<< FlushRx >>) BY DEF Program, FlushRx, Access, WellFormed, Measurements
      <3>2. Ends(<< FlushRx >>, "bist2", FALSE) /\ \A f : f # "bist2" => Untouched(<< FlushRx >>, f)
        BY FlushRxWrites DEF Ends, Gives, Untouched
      <3> QED BY <2>1, <3>1, <3>2
    <2>2. CASE ~flush BY <2>2, <1>1
    <2> QED BY <2>1, <2>2
  <1> HIDE DEF r
  <1>7. Program(b) /\ Pulls(b) /\ Rest(b)
    <2>1. CASE "HARDRESET" \in S
      <3>1. Program(r \o rd) BY <1>4, <1>5, ProgramConcat
      <3>2. Rest(r \o rd) BY <1>4, <1>5, UntouchedConcat
      <3>3. Pulls(r \o rd) BY <1>4, <1>5, UntouchedConcat, EndsConcat
      <3> QED BY <2>1, <3>1, <3>2, <3>3
    <2>2. CASE "HARDRESET" \notin S BY <2>2, <1>1
    <2> QED BY <2>1, <2>2
  <1> HIDE DEF a, b, c
  <1> DEFINE ab == a \o b
  <1>8. Program(ab) /\ Pulls(ab) /\ Rest(ab)
    <2>1. Program(ab) BY <1>3, <1>7, ProgramConcat
    <2>2. Rest(ab) BY <1>3, <1>7, UntouchedConcat
    <2>3. Pulls(ab) BY <1>3, <1>7, UntouchedConcat, EndsConcat
    <2> QED BY <2>1, <2>2, <2>3
  <1> HIDE DEF ab
  <1>9. Pulls(ab \o c) BY <1>6, <1>8, UntouchedConcat, EndsConcat
  <1>10. \A f : f \notin {"pulling_up", "pu", "pd", "bist2"} => Untouched(ab \o c, f)
    BY <1>6, <1>8, UntouchedConcat
  <1>11. Untouched(ab \o c, "bist2") \/ Ends(ab \o c, "bist2", FALSE)
    <2>1. Untouched(ab, "bist2") BY <1>8
    <2>2. Program(ab) /\ Program(c) BY <1>6, <1>8
    <2> HIDE DEF Rest, Pulls
    <2>3. CASE Untouched(c, "bist2") BY <2>1, <2>2, <2>3, UntouchedConcat
    <2>4. CASE Ends(c, "bist2", FALSE) BY <2>2, <2>4, EndsConcat
    <2> QED BY <2>3, <2>4, <1>6
  <1>12. Answer(S, rd, flush) = ab \o c BY DEF Answer, ab, a, b, c, r
  <1> HIDE DEF Rest
  <1> QED BY <1>9, <1>10, <1>11, <1>12

----------------------------------------------------------------------------
(***************************************************************************)
(* The register invariant, for an I2C bus that carries every read: at any  *)
(* access of any call, and after a reset of the ESP32 in the middle of     *)
(* one, the accesses still to come bring the registers to agree with the   *)
(* driver's memory.                                                        *)
(***************************************************************************)

Will(f, v) == Settles(chip, todo, f, v)

VncOf(rp) == TCPC_REG_MEASURE_MDAC_MV(IF rp = "3A0" THEN 2600 ELSE 1600)
RdOf(rp) == TCPC_REG_MEASURE_MDAC_MV(CASE rp = "3A0" -> 800 [] rp = "1A5" -> 400 [] OTHER -> 200)

RpSettles ==
    /\ Will("host_cur", CONFIG_USB_PD_PULLUP)
    /\ Will("mdac_vnc", VncOf(CONFIG_USB_PD_PULLUP))
    /\ Will("mdac_rd", RdOf(CONFIG_USB_PD_PULLUP))

PullsSettle ==
    \/ Will("pulling_up", 1) /\ Will("pu", Pins) /\ Will("pd", {})
    \/ Will("pulling_up", 0) /\ Will("pu", {}) /\ Will("pd", Pins)

Deaf(pin) ==
    /\ Will("rx_enable", 0) /\ Will("gcrc", FALSE) /\ Will("bc_lvl", TRUE)
    /\ Will("txcc", {pin}) /\ Will("cc_polarity", pin - 1)

Listening(pin) ==
    /\ Will("rx_enable", 1) /\ Will("gcrc", TRUE) /\ Will("bc_lvl", FALSE)
    /\ Will("txcc", {pin}) /\ Will("cc_polarity", pin - 1) /\ Will("meas", {pin})

ReceiverSettles ==
    /\ Will("on", TRUE) /\ Will("int_mask", FALSE) /\ Will("bist2", FALSE)
    /\ \E pin \in Pins : Deaf(pin) \/ Listening(pin)

RegisterInv == DOMAIN chip = ChipFields /\ RpSettles /\ PullsSettle /\ ReceiverSettles

RpFields == {"host_cur", "mdac_vnc", "mdac_rd"}
PullFields == {"pulling_up", "pu", "pd"}
ReceiverFields ==
    {"on", "int_mask", "bist2", "rx_enable", "gcrc", "bc_lvl", "txcc", "cc_polarity", "meas"}

LEMMA FieldNames == RpFields \cup PullFields \cup ReceiverFields \subseteq ChipFields
  BY DEF RpFields, PullFields, ReceiverFields, ChipFields, ResetRegisters, ZeroedMemory

\* What is to become of these fields does not change in a step.
Stays(fields) ==
    \A f \in fields : \A v : Settles(chip, todo, f, v) => Settles(chip', todo', f, v)

LEMMA StaysRp ==
    ASSUME RpSettles, Stays(RpFields)
    PROVE  RpSettles'
  BY DEF RpSettles, Stays, RpFields, Will

LEMMA StaysPulls ==
    ASSUME PullsSettle, Stays(PullFields)
    PROVE  PullsSettle'
  BY DEF PullsSettle, Stays, PullFields, Will

LEMMA StaysReceiver ==
    ASSUME ReceiverSettles, Stays(ReceiverFields)
    PROVE  ReceiverSettles'
  BY DEF ReceiverSettles, Deaf, Listening, Stays, ReceiverFields, Will

LEMMA StaysAll ==
    ASSUME RegisterInv, Stays(RpFields \cup PullFields \cup ReceiverFields),
           DOMAIN chip' = ChipFields
    PROVE  RegisterInv'
  <1>1. Stays(RpFields) /\ Stays(PullFields) /\ Stays(ReceiverFields) BY DEF Stays
  <1> QED BY <1>1, StaysRp, StaysPulls, StaysReceiver DEF RegisterInv

LEMMA RegisterInit == Init => RegisterInv
  <1> SUFFICES ASSUME Init PROVE RegisterInv OBVIOUS
  <1>1. todo = Setup /\ DOMAIN chip = ChipFields BY DEF Init, ChipFields
  <1>2. \A f, v : Ends(Setup, f, v) => Will(f, v) BY <1>1 DEF Will, Settles
  <1>3. RpSettles BY <1>2, SetupWrites DEF RpSettles, VncOf, RdOf
  <1>4. PullsSettle BY <1>2, SetupWrites DEF PullsSettle
  <1>5. ReceiverSettles
    <2>1. 1 \in Pins BY DEF Pins
    <2>2. /\ Will("rx_enable", 0) /\ Will("gcrc", FALSE) /\ Will("bc_lvl", TRUE)
          /\ Will("txcc", {1}) /\ Will("cc_polarity", 0)
          /\ Will("on", TRUE) /\ Will("int_mask", FALSE) /\ Will("bist2", FALSE)
      <3>1. /\ Ends(Setup, "rx_enable", 0) /\ Ends(Setup, "gcrc", FALSE) /\ Ends(Setup, "bc_lvl", TRUE)
            /\ Ends(Setup, "txcc", {1}) /\ Ends(Setup, "cc_polarity", 0)
            /\ Ends(Setup, "on", TRUE) /\ Ends(Setup, "int_mask", FALSE) /\ Ends(Setup, "bist2", FALSE)
        BY SetupWrites
      <3> QED BY <1>2, <3>1, Zenon
    <2>3. Will("cc_polarity", 1 - 1)
      <3>1. 1 - 1 = 0 OBVIOUS
      <3> QED BY <2>2, <3>1
    <2> QED BY <2>1, <2>2, <2>3, Zenon DEF ReceiverSettles, Deaf
  <1> QED BY <1>1, <1>3, <1>4, <1>5 DEF RegisterInv

\* An access writes what it says, and the next one is up.
LEMMA AccessEffect ==
    ASSUME ReadsFail = FALSE, Program(todo), DOMAIN chip = ChipFields, Bus
    PROVE  /\ todo # << >> /\ Head(todo) = todo[1] /\ DOMAIN chip' = ChipFields
           /\ \A f \in ChipFields :
                 chip'[f] = IF f \in DOMAIN Written(todo[1]) THEN Written(todo[1])[f] ELSE chip[f]
  <1>1. todo # << >> /\ Head(todo) = todo[1]
    <2>1. todo # << >>
      BY DEF Bus, DoWrite, DoWriteBack, DoSwReset, DoPdReset, DoFlushRx, DoFlushTx, DoSend,
             DoComp, DoCompRd, DoBcLvl, DoRead, DoHandle, DoTake, Do
    <2> QED BY <2>1, ProgramTail
  <1>2. \A fields : tcpc_read(fields) = {chip} BY DEF tcpc_read
  <1>3. CASE DoWrite \/ DoWriteBack
    <2>1. todo[1].do \in {"write", "write_back"} /\ chip' = Assign(todo[1].arg, chip)
      BY <1>1, <1>2, <1>3 DEF DoWrite, DoWriteBack, Do
    <2>2. Written(todo[1]) = todo[1].arg BY <2>1 DEF Written
    <2> QED BY <1>1, <2>1, <2>2 DEF Assign
  <1>4. CASE DoSwReset
    <2>1. todo[1].do = "sw_reset" /\ chip' = Assign(todo[1].arg, Assign(ResetRegisters, chip))
      BY <1>1, <1>4 DEF DoSwReset, Do
    <2>2. Written(todo[1]) =
            [f \in DOMAIN todo[1].arg \cup DOMAIN ResetRegisters |->
                IF f \in DOMAIN todo[1].arg THEN todo[1].arg[f] ELSE ResetRegisters[f]]
      BY <2>1 DEF Written
    <2> QED BY <1>1, <2>1, <2>2 DEF Assign
  <1>5. CASE DoFlushRx
    <2>1. todo[1].do = "flush_rx" /\ chip' = [chip EXCEPT !.bist2 = FALSE]
      BY <1>1, <1>5 DEF DoFlushRx, Do
    <2>2. Written(todo[1]) = [bist2 |-> FALSE] BY <2>1 DEF Written
    <2>3. DOMAIN Written(todo[1]) = {"bist2"} /\ Written(todo[1])["bist2"] = FALSE BY <2>2
    <2>4. "bist2" \in ChipFields BY DEF ChipFields, ResetRegisters
    <2>5. chip'["bist2"] = FALSE /\ \A f \in ChipFields : f # "bist2" => chip'[f] = chip[f]
      BY <2>1, <2>4
    <2>6. DOMAIN chip' = ChipFields BY <2>1
    <2> QED BY <1>1, <2>3, <2>5, <2>6
  <1>6. CASE DoPdReset \/ DoFlushTx \/ DoSend \/ DoComp \/ DoCompRd \/ DoBcLvl \/ DoRead
             \/ DoHandle \/ DoTake
    <2>1. chip' = chip /\ todo[1].do \notin {"write", "write_back", "sw_reset", "flush_rx"}
      BY <1>1, <1>2, <1>6 DEF DoPdReset, DoFlushTx, DoSend, DoComp, DoCompRd, DoBcLvl, DoRead,
             DoHandle, DoTake, Do
    <2>2. DOMAIN Written(todo[1]) = {} BY <2>1, OthersWriteNothing
    <2> QED BY <1>1, <2>1, <2>2
  <1> QED BY <1>3, <1>4, <1>5, <1>6 DEF Bus

\* What is left to do after an access: the rest; the comparison with the second
\* threshold, which writes nothing, and the rest; or the same again.
LEMMA AccessContinues ==
    ASSUME Bus, ~Do("handle"), Program(todo)
    PROVE  \/ todo' = Tail(todo)
           \/ /\ Do("comp_vnc") /\ chip' = chip
              /\ todo' = << Access("comp_rd", Head(todo).arg) >> \o Tail(todo)
           \/ Do("take") /\ todo' = todo /\ chip' = chip
  BY DEF Bus, DoWrite, DoWriteBack, DoSwReset, DoPdReset, DoFlushRx, DoFlushTx, DoSend,
         DoComp, DoCompRd, DoBcLvl, DoRead, DoHandle, DoTake, Continue

\* One access that writes nothing in the place of another.
LEMMA ReplaceHead ==
    ASSUME NEW q, Program(q), NEW a, WellFormed(a), NEW p, NEW f,
           Len(p) = 1 + Len(q), \A i \in 1 .. Len(q) : q[i] = p[i + 1],
           f \notin DOMAIN Written(p[1]), f \notin DOMAIN Written(a),
           NEW c, NEW v, Settles(c, p, f, v)
    PROVE  Settles(c, << a >> \o q, f, v)
  <1> DEFINE r == Cons(a, q)
  <1>2. /\ Len(q) \in Nat /\ Len(r) = 1 + Len(q) /\ r[1] = a
        /\ \A i \in 1 .. Len(r) : i = 1 \/ (i - 1 \in 1 .. Len(q) /\ r[i] = q[i - 1])
    BY ConsProgram
  <1> HIDE DEF r
  <1>3. Len(p) = Len(r) BY <1>2
  <1>4. ASSUME NEW i \in 1 .. Len(p), i # 1 PROVE p[i] = r[i]
    <2>1. i - 1 \in 1 .. Len(q) /\ r[i] = q[i - 1] /\ (i - 1) + 1 = i BY <1>2, <1>4
    <2> QED BY <2>1
  <1>5. \A i \in 1 .. Len(p) : f \in DOMAIN Written(p[i]) \cup DOMAIN Written(r[i]) => p[i] = r[i]
    BY <1>2, <1>4
  <1>6. Settles(c, r, f, v) BY <1>3, <1>5, ReplaceSettles
  <1> QED BY <1>6 DEF Cons, r

LEMMA ReplaceFirst ==
    ASSUME NEW p, Program(p), p # << >>, NEW a, WellFormed(a),
           DOMAIN Written(p[1]) = {}, DOMAIN Written(a) = {},
           NEW c, NEW f, NEW v, Settles(c, p, f, v)
    PROVE  Settles(c, << a >> \o Tail(p), f, v)
  <1>1. Program(Tail(p)) BY ProgramTail
  <1>2. Len(p) = 1 + Len(Tail(p)) /\ \A i \in 1 .. Len(Tail(p)) : Tail(p)[i] = p[i + 1]
    BY ProgramTail
  <1> QED BY <1>1, <1>2, ReplaceHead

LEMMA BusSettles ==
    ASSUME ReadsFail = FALSE, Program(todo), DOMAIN chip = ChipFields, Bus, ~Do("handle"),
           NEW f \in ChipFields, NEW v, Settles(chip, todo, f, v)
    PROVE  Settles(chip', todo', f, v)
  <1>1. /\ todo # << >> /\ Head(todo) = todo[1]
        /\ chip'[f] = IF f \in DOMAIN Written(todo[1]) THEN Written(todo[1])[f] ELSE chip[f]
    BY AccessEffect
  <1>2. CASE todo' = Tail(todo)
    BY <1>1, <1>2, StepSettles
  <1>3. CASE /\ Do("comp_vnc") /\ chip' = chip
             /\ todo' = << Access("comp_rd", Head(todo).arg) >> \o Tail(todo)
    <2>1. WellFormed(todo[1]) /\ todo[1].do = "comp_vnc" BY <1>1, <1>3, ProgramTail DEF Do
    <2>2. WellFormed(Access("comp_rd", todo[1].arg))
      BY <2>1 DEF WellFormed, Access, Measurements
    <2>3. DOMAIN Written(Access("comp_rd", todo[1].arg)) = {} /\ DOMAIN Written(todo[1]) = {}
      BY <2>1, OthersWriteNothing DEF Access
    <2> QED BY <1>1, <1>3, <2>2, <2>3, ReplaceFirst
  <1>4. CASE Do("take") /\ todo' = todo /\ chip' = chip
    BY <1>4
  <1> QED BY <1>2, <1>3, <1>4, AccessContinues

LEMMA BusRegisters ==
    ASSUME ReadsFail = FALSE, TypeInv, RegisterInv, Bus
    PROVE  RegisterInv'
  <1>1. Program(todo) /\ Handles(todo, seen) BY DEF TypeInv, Handles
  <1>2. DOMAIN chip = ChipFields BY DEF RegisterInv
  <1>3. DOMAIN chip' = ChipFields BY <1>1, <1>2, AccessEffect
  <1>4. CASE ~Do("handle")
    <2>1. Stays(ChipFields) BY <1>1, <1>2, <1>4, BusSettles DEF Stays
    <2>2. Stays(RpFields \cup PullFields \cup ReceiverFields)
      BY <2>1, FieldNames DEF Stays
    <2> QED BY <1>3, <2>2, StaysAll
  <1>5. CASE Do("handle")
    <2>1. /\ todo # << >> /\ todo[1].do = "handle" /\ Head(todo) = todo[1]
          /\ Len(todo) \in Nat /\ 1 \in 1 .. Len(todo)
      BY <1>1, <1>5, ProgramTail DEF Do
    <2>2. Len(todo) = 1 BY <2>1, <1>1 DEF Handles
    <2>3. ASSUME NEW f, NEW v, Settles(chip, todo, f, v) PROVE chip[f] = v
      <3>1. DOMAIN Written(todo[1]) = {} BY <2>1, OthersWriteNothing
      <3> QED BY <3>1, <2>2, <2>3 DEF Settles, Ends, Gives
    <2>4. DoHandle
      BY <1>5 DEF Bus, DoWrite, DoWriteBack, DoSwReset, DoPdReset, DoFlushRx, DoFlushTx, DoSend,
                  DoComp, DoCompRd, DoBcLvl, DoRead, DoTake, Do
    <2>5. PICK rd \in {<< >>, fusb302_tcpm_set_cc("RD")} :
             todo' = Answer(seen, rd, "GCRCSENT" \in seen /\ chip.rx_enable = 0)
      BY <2>4 DEF DoHandle, Answer
    <2>6. chip' = chip BY <2>4 DEF DoHandle
    <2> DEFINE flush == "GCRCSENT" \in seen /\ chip.rx_enable = 0
    <2>7. /\ \A f : f \notin {"pulling_up", "pu", "pd", "bist2"} => Untouched(todo', f)
          /\ Untouched(todo', "bist2") \/ Ends(todo', "bist2", FALSE)
          /\ \/ \A f \in {"pulling_up", "pu", "pd"} : Untouched(todo', f)
             \/ Ends(todo', "pulling_up", 0) /\ Ends(todo', "pu", {}) /\ Ends(todo', "pd", Pins)
      <3>1. flush \in BOOLEAN OBVIOUS
      <3> HIDE DEF flush
      <3>2. todo' = Answer(seen, rd, flush) BY <2>5 DEF flush
      <3> QED BY <3>1, <3>2, AnswerWrites
    <2>8. \A f, v : Settles(chip, todo, f, v) /\ Untouched(todo', f) => Settles(chip', todo', f, v)
      BY <2>3, <2>6 DEF Settles
    <2>9. Stays(RpFields) BY <2>7, <2>8 DEF Stays, RpFields
    <2>10. ASSUME NEW f \in ReceiverFields, NEW v, Settles(chip, todo, f, v)
           PROVE  Settles(chip', todo', f, v)
      <3>1. CASE f # "bist2" BY <2>7, <2>8, <2>10, <3>1 DEF ReceiverFields
      <3>2. CASE f = "bist2"
        <4>1. chip["bist2"] = FALSE BY <2>3 DEF RegisterInv, ReceiverSettles, Will
        <4>2. v = FALSE BY <4>1, <2>3, <2>10, <3>2
        <4>3. CASE Untouched(todo', "bist2") BY <4>3, <2>8, <2>10, <3>2
        <4>4. CASE Ends(todo', "bist2", FALSE) BY <4>4, <4>2, <3>2 DEF Settles
        <4> QED BY <4>3, <4>4, <2>7
      <3> QED BY <3>1, <3>2
    <2>11. Stays(ReceiverFields) BY <2>10 DEF Stays
    <2>12. PullsSettle'
      <3>1. CASE \A f \in {"pulling_up", "pu", "pd"} : Untouched(todo', f)
        <4>1. Stays(PullFields) BY <3>1, <2>8 DEF Stays, PullFields
        <4> QED BY <4>1, StaysPulls DEF RegisterInv
      <3>2. CASE Ends(todo', "pulling_up", 0) /\ Ends(todo', "pu", {}) /\ Ends(todo', "pd", Pins)
        BY <3>2 DEF PullsSettle, Will, Settles
      <3> QED BY <3>1, <3>2, <2>7
    <2>13. RpSettles' /\ ReceiverSettles' BY <2>9, <2>11, StaysRp, StaysReceiver DEF RegisterInv
    <2> QED BY <1>3, <2>12, <2>13 DEF RegisterInv
  <1> QED BY <1>4, <1>5

----------------------------------------------------------------------------
\* A call starts with the registers settled, and says what becomes of them.

LEMMA CallFields ==
    ASSUME RegisterInv, todo = << >>
    PROVE  /\ \A f, v : Will(f, v) => chip[f] = v
           /\ \A f : Untouched(todo, f)
  <1>1. \A f, v : Will(f, v) => chip[f] = v
    <2>1. ASSUME NEW f, NEW v, Will(f, v) PROVE chip[f] = v
      <3>1. Settles(chip, << >>, f, v) BY <2>1 DEF Will
      <3> QED BY <3>1, EmptySettles
    <2> QED BY <2>1
  <1>2. Len(<< >>) = 0 OBVIOUS
  <1> QED BY <1>1, <1>2 DEF Untouched

\* A call that leaves these fields, or restores them.
LEMMA CallStays ==
    ASSUME RegisterInv, NEW p, Call(p, chip), NEW fields,
           \A f \in fields : Settles(chip, p, f, chip[f])
    PROVE  Stays(fields)
  <1>1. todo = << >> /\ todo' = p /\ chip' = chip BY DEF Call
  <1> QED BY <1>1, CallFields DEF Stays, Will

LEMMA NeutralCall ==
    ASSUME RegisterInv, NEW p, Call(p, chip), \A f : Settles(chip, p, f, chip[f])
    PROVE  RegisterInv'
  <1>1. DOMAIN chip' = ChipFields BY DEF Call, RegisterInv
  <1> QED BY <1>1, CallStays, StaysAll

LEMMA SetCcRegisters ==
    ASSUME RegisterInv, NEW pull, Call(fusb302_tcpm_set_cc(pull), chip)
    PROVE  RegisterInv'
  <1>1. DOMAIN chip' = ChipFields BY DEF Call, RegisterInv
  <1>2. \A f \in RpFields \cup ReceiverFields :
           Settles(chip, fusb302_tcpm_set_cc(pull), f, chip[f])
    BY SetCcWrites DEF Settles, RpFields, ReceiverFields
  <1>3. Stays(RpFields) /\ Stays(ReceiverFields) BY <1>2, CallStays
  <1>4. PullsSettle' BY SetCcWrites DEF Call, PullsSettle, Will, Settles
  <1> QED BY <1>1, <1>3, <1>4, StaysRp, StaysReceiver DEF RegisterInv

LEMMA SetPolarityRegisters ==
    ASSUME RegisterInv, SetPolarity
    PROVE  RegisterInv'
  <1>1. PICK polarity \in {0, 1} :
           chip.rx_enable = 0 /\ Call(fusb302_tcpm_set_polarity(polarity), chip)
    BY DEF SetPolarity
  <1> DEFINE p == fusb302_tcpm_set_polarity(polarity)
  <1>2. todo = << >> /\ todo' = p /\ chip' = chip /\ DOMAIN chip' = ChipFields
    BY <1>1 DEF Call, RegisterInv
  <1>3. \A f, v : Will(f, v) => chip[f] = v BY <1>2, CallFields
  <1>4. /\ Ends(p, "txcc", {Pin(polarity)}) /\ Ends(p, "cc_polarity", polarity)
        /\ \A f : f \notin {"meas", "txcc", "cc_polarity"} => Settles(chip, p, f, chip[f])
    BY SetPolarityWrites DEF Settles
  <1> HIDE DEF p
  <1>5. \A f \in RpFields \cup PullFields : Settles(chip, p, f, chip[f])
    BY <1>4 DEF RpFields, PullFields
  <1>6. Stays(RpFields) /\ Stays(PullFields) BY <1>1, <1>5, CallStays DEF p
  <1>7. \A f, v : Will(f, v) /\ f \notin {"meas", "txcc", "cc_polarity"} => Will(f, v)'
    BY <1>2, <1>3, <1>4 DEF Will
  <1>8. ReceiverSettles'
    <2>1. PICK pin \in Pins : Deaf(pin)
      <3>1. PICK pin \in Pins : Deaf(pin) \/ Listening(pin) BY DEF RegisterInv, ReceiverSettles
      <3>2. ~Listening(pin)
        <4>1. Listening(pin) => chip.rx_enable = 1 BY <1>3 DEF Listening
        <4> QED BY <1>1, <4>1
      <3> QED BY <3>1, <3>2
    <2>2. Pin(polarity) \in Pins /\ Pin(polarity) - 1 = polarity BY DEF Pin, Pins
    <2>3. Will("txcc", {Pin(polarity)})' /\ Will("cc_polarity", Pin(polarity) - 1)'
      BY <1>2, <1>4, <2>2 DEF Will, Settles
    <2>4. Deaf(Pin(polarity))' BY <1>7, <2>1, <2>3 DEF Deaf
    <2>5. Will("on", TRUE)' /\ Will("int_mask", FALSE)' /\ Will("bist2", FALSE)'
      BY <1>7 DEF RegisterInv, ReceiverSettles
    <2> QED BY <2>2, <2>4, <2>5 DEF ReceiverSettles
  <1> QED BY <1>2, <1>6, <1>8, StaysRp, StaysPulls DEF RegisterInv

LEMMA SetRxEnableRegisters ==
    ASSUME RegisterInv, SetRxEnable
    PROVE  RegisterInv'
  <1>1. PICK enable \in {0, 1} :
           Call(fusb302_tcpm_set_rx_enable(chip, enable), [chip EXCEPT !.rx_enable = enable])
    BY DEF SetRxEnable
  <1> DEFINE p == fusb302_tcpm_set_rx_enable(chip, enable)
  <1>2. /\ todo = << >> /\ todo' = p /\ DOMAIN chip' = ChipFields /\ chip'["rx_enable"] = enable
        /\ \A f : f \in ChipFields /\ f # "rx_enable" => chip'[f] = chip[f]
    <2>1. chip' = [chip EXCEPT !.rx_enable = enable] /\ todo = << >> /\ todo' = p BY <1>1 DEF Call
    <2>2. "rx_enable" \in DOMAIN chip /\ DOMAIN chip = ChipFields
      BY DEF RegisterInv, ChipFields, ZeroedMemory
    <2> HIDE DEF p
    <2> QED BY <2>1, <2>2
  <1>3. \A f, v : Will(f, v) => chip[f] = v BY <1>2, CallFields
  <1>4. \A f : f \notin {"gcrc", "bc_lvl", "bist2", "meas"} => Untouched(p, f)
    BY EnableWrites, DisableWrites
  <1>5. \A f \in ChipFields : \A v :
           Will(f, v) /\ f \notin {"gcrc", "bc_lvl", "bist2", "meas", "rx_enable"} => Will(f, v)'
    BY <1>2, <1>3, <1>4 DEF Will, Settles
  <1>6. Stays(RpFields) /\ Stays(PullFields)
    BY <1>5, FieldNames DEF Stays, Will, RpFields, PullFields
  <1>7. PICK pin \in Pins : Will("txcc", {pin}) /\ Will("cc_polarity", pin - 1)
    BY DEF RegisterInv, ReceiverSettles, Deaf, Listening
  <1>8. /\ Will("txcc", {pin})' /\ Will("cc_polarity", pin - 1)'
        /\ Will("on", TRUE)' /\ Will("int_mask", FALSE)'
    BY <1>5, <1>7, FieldNames DEF ReceiverFields, RegisterInv, ReceiverSettles
  <1>9. Will("rx_enable", enable)' BY <1>2, <1>4 DEF Will, Settles
  <1>10. CASE enable = 1
    <2>1. Pin(chip.cc_polarity) = pin BY <1>3, <1>7 DEF Pin, Pins
    <2>2. /\ Ends(p, "gcrc", TRUE) /\ Ends(p, "bc_lvl", FALSE) /\ Ends(p, "bist2", FALSE)
          /\ Ends(p, "meas", {pin})
      BY <1>10, <2>1, EnableWrites
    <2>3. /\ Will("gcrc", TRUE)' /\ Will("bc_lvl", FALSE)' /\ Will("bist2", FALSE)'
          /\ Will("meas", {pin})'
      BY <1>2, <2>2 DEF Will, Settles
    <2>4. Listening(pin)' BY <1>8, <1>9, <1>10, <2>3 DEF Listening
    <2>5. ReceiverSettles' BY <1>8, <2>3, <2>4 DEF ReceiverSettles
    <2> QED BY <1>2, <1>6, <2>5, StaysRp, StaysPulls DEF RegisterInv
  <1>11. CASE enable = 0
    <2>1. Ends(p, "gcrc", FALSE) /\ Ends(p, "bc_lvl", TRUE) /\ Untouched(p, "bist2")
      <3>1. p = fusb302_tcpm_set_rx_enable(chip, 0) BY <1>11
      <3> HIDE DEF p
      <3>2. Ends(p, "gcrc", FALSE) /\ Ends(p, "bc_lvl", TRUE) BY <3>1, DisableWrites, Zenon
      <3>3. "bist2" \notin {"gcrc", "bc_lvl", "meas"} OBVIOUS
      <3>4. Untouched(p, "bist2") BY <3>1, <3>3, DisableWrites, Zenon
      <3> QED BY <3>2, <3>4
    <2>2. Will("gcrc", FALSE)' /\ Will("bc_lvl", TRUE)' BY <1>2, <2>1 DEF Will, Settles
    <2>3. Will("bist2", FALSE)'
      <3>1. chip["bist2"] = FALSE BY <1>3 DEF RegisterInv, ReceiverSettles
      <3>2. chip'["bist2"] = FALSE BY <3>1, <1>2 DEF ChipFields, ResetRegisters
      <3> QED BY <3>2, <1>2, <2>1 DEF Will, Settles
    <2>4. Deaf(pin)' BY <1>8, <1>9, <1>11, <2>2 DEF Deaf
    <2>5. ReceiverSettles' BY <1>8, <2>3, <2>4 DEF ReceiverSettles
    <2> QED BY <1>2, <1>6, <2>5, StaysRp, StaysPulls DEF RegisterInv
  <1> QED BY <1>10, <1>11

LEMMA ProtocolRegisters ==
    ASSUME RegisterInv, Protocol
    PROVE  RegisterInv'
  <1>1. CASE GetCc BY <1>1, GetCcRestores, NeutralCall DEF GetCc
  <1>2. CASE SetPolarity BY <1>2, SetPolarityRegisters
  <1>3. CASE SetRxEnable BY <1>3, SetRxEnableRegisters
  <1>4. CASE \E pull \in {"RP", "RD"} : Call(fusb302_tcpm_set_cc(pull), chip)
    BY <1>4, SetCcRegisters
  <1>5. CASE \E roles \in Headers : Call(fusb302_tcpm_set_msg_header(roles[1], roles[2]), chip)
    <2>1. PICK roles \in Headers : Call(fusb302_tcpm_set_msg_header(roles[1], roles[2]), chip)
      BY <1>5
    <2>2. \A f \in RpFields \cup PullFields \cup ReceiverFields :
             Settles(chip, fusb302_tcpm_set_msg_header(roles[1], roles[2]), f, chip[f])
      BY SetHeaderWrites DEF Settles, RpFields, PullFields, ReceiverFields
    <2>3. DOMAIN chip' = ChipFields BY <2>1 DEF Call, RegisterInv
    <2> QED BY <2>1, <2>2, <2>3, CallStays, StaysAll
  <1>6. CASE \E type \in {"SOP", "HARD_RESET", "BIST"} : Call(fusb302_tcpm_transmit(type), chip)
    <2>1. PICK type : Call(fusb302_tcpm_transmit(type), chip) BY <1>6
    <2>2. chip.bist2 = FALSE
      <3>1. todo = << >> BY <2>1 DEF Call
      <3> QED BY <3>1, CallFields DEF RegisterInv, ReceiverSettles
    <2> QED BY <2>1, <2>2, TransmitRestores, NeutralCall
  <1>7. CASE Call(fusb302_tcpm_get_message, chip) \/ Call(fusb302_tcpc_alert, chip)
    <2>1. \A f : /\ Settles(chip, fusb302_tcpm_get_message, f, chip[f])
                 /\ Settles(chip, fusb302_tcpc_alert, f, chip[f])
      BY MessageAndAlertWriteNothing DEF Settles
    <2> QED BY <1>7, <2>1, NeutralCall
  <1> QED BY <1>1, <1>2, <1>3, <1>4, <1>5, <1>6, <1>7 DEF Protocol, Others

\* Wherever the ESP32 was reset, setup brings everything in order.
LEMMA RebootRegisters ==
    ASSUME RegisterInv, Reboot
    PROVE  RegisterInv'
  <1>1. todo' = Setup /\ DOMAIN chip' = ChipFields BY DEF Reboot, Assign, RegisterInv
  <1>2. \A f, v : Ends(Setup, f, v) => Will(f, v)' BY <1>1 DEF Will, Settles
  <1>3. RpSettles' BY <1>2, SetupWrites DEF RpSettles, VncOf, RdOf
  <1>4. PullsSettle' BY <1>2, SetupWrites DEF PullsSettle
  <1>5. ReceiverSettles'
    <2>1. 1 \in Pins /\ 1 - 1 = 0 BY DEF Pins
    <2>2. /\ Ends(Setup, "rx_enable", 0) /\ Ends(Setup, "gcrc", FALSE) /\ Ends(Setup, "bc_lvl", TRUE)
          /\ Ends(Setup, "txcc", {1}) /\ Ends(Setup, "cc_polarity", 0)
          /\ Ends(Setup, "on", TRUE) /\ Ends(Setup, "int_mask", FALSE) /\ Ends(Setup, "bist2", FALSE)
      BY SetupWrites, Zenon
    <2>3. /\ Will("rx_enable", 0)' /\ Will("gcrc", FALSE)' /\ Will("bc_lvl", TRUE)'
          /\ Will("txcc", {1})' /\ Will("cc_polarity", 0)'
          /\ Will("on", TRUE)' /\ Will("int_mask", FALSE)' /\ Will("bist2", FALSE)'
      BY <1>2, <2>2, Zenon
    <2>4. Will("cc_polarity", 1 - 1)' BY <2>1, <2>3
    <2>5. Deaf(1)' BY <2>3, <2>4, Zenon DEF Deaf
    <2> QED BY <2>1, <2>3, <2>5, Zenon DEF ReceiverSettles
  <1> QED BY <1>1, <1>3, <1>4, <1>5 DEF RegisterInv

LEMMA RegisterInvariant ==
    ASSUME ReadsFail = FALSE
    PROVE  Spec => [](TypeInv /\ RegisterInv)
  <1>1. TypeInv /\ RegisterInv /\ [Next]_vars => RegisterInv'
    <2> SUFFICES ASSUME TypeInv, RegisterInv, [Next]_vars PROVE RegisterInv' OBVIOUS
    <2>1. CASE Bus BY <2>1, BusRegisters
    <2>2. CASE Protocol BY <2>2, ProtocolRegisters
    <2>3. CASE Reboot BY <2>3, RebootRegisters
    <2>4. CASE chip' = chip /\ todo' = todo
      BY <2>4 DEF RegisterInv, RpSettles, PullsSettle, ReceiverSettles, Deaf, Listening, Will
    <2> QED BY <2>1, <2>2, <2>3, <2>4
            DEF Next, vars, PacketArrives, HardResetArrives, TxDone, TxEnds, Plug
  <1> QED BY <1>1, RegisterInit, TypeInvariant, PTL DEF Spec

\* Between two driver calls the chip's registers agree with the driver's memory,
\* whatever was called and wherever a reset of the ESP32 cut a call short, if the
\* reads over I2C succeed: a receiver that is on acknowledges and listens and
\* transmits on the pin chosen (fusb302_tcpm_set_rx_enable, _set_polarity, _init).
THEOREM RegistersAgree ==
    ASSUME ReadsFail = FALSE
    PROVE  Spec => []RegistersMatchDriver
  <1>1. RegisterInv => RegistersMatchDriver
    <2> SUFFICES ASSUME RegisterInv, todo = << >> PROVE RegistersMatchDriver
      BY DEF RegistersMatchDriver, Idle
    <2>1. \A f, v : Will(f, v) => chip[f] = v BY CallFields
    <2>2. chip.on = TRUE /\ chip.int_mask = FALSE /\ chip.bist2 = FALSE
      BY <2>1 DEF RegisterInv, ReceiverSettles
    <2>3. PICK pin \in Pins : Deaf(pin) \/ Listening(pin) BY DEF RegisterInv, ReceiverSettles
    <2>4. CASE Deaf(pin)
      <3>1. chip.rx_enable = 0 /\ chip.gcrc = FALSE /\ chip.bc_lvl = TRUE
        BY <2>1, <2>4 DEF Deaf
      <3> QED BY <2>2, <3>1 DEF RegistersMatchDriver
    <2>5. CASE Listening(pin)
      <3>1. /\ chip.rx_enable = 1 /\ chip.gcrc = TRUE /\ chip.bc_lvl = FALSE
            /\ chip.txcc = {pin} /\ chip.meas = {pin} /\ chip.cc_polarity = pin - 1
        BY <2>1, <2>5 DEF Listening
      <3>2. Pin(chip.cc_polarity) = pin BY <3>1 DEF Pin, Pins
      <3> QED BY <2>2, <3>1, <3>2 DEF RegistersMatchDriver
    <2> QED BY <2>3, <2>4, <2>5
  <1> QED BY <1>1, RegisterInvariant, PTL

\* Between two driver calls exactly the resistors the driver believes in are on, on
\* both CC pins (fusb302_tcpm_set_cc, fusb302_measure_cc_pin_source).
THEOREM PullsAgree ==
    ASSUME ReadsFail = FALSE
    PROVE  Spec => []PullsMatchDriver
  <1>1. RegisterInv => PullsMatchDriver
    <2> SUFFICES ASSUME RegisterInv, todo = << >> PROVE PullsMatchDriver
      BY DEF PullsMatchDriver, Idle
    <2>1. \A f, v : Will(f, v) => chip[f] = v BY CallFields
    <2> QED BY <2>1 DEF RegisterInv, PullsSettle, PullsMatchDriver
  <1> QED BY <1>1, RegisterInvariant, PTL

----------------------------------------------------------------------------
(***************************************************************************)
(* The order of the accesses still to come.  The receiver is switched on   *)
(* last, on a pin that stays, with the Rx FIFO flushed before; the FIFO is *)
(* flushed and the pin chosen while nothing is acknowledged; and the       *)
(* protocol engine is reset once for each Hard Reset signal read.          *)
(***************************************************************************)

Before(p, i, what) == \E j \in 1 .. i - 1 : p[j].do = what

NothingWaits(fifo) == \A k \in DOMAIN fifo : fifo[k] # "acked"

EnableLast(p, c, fifo) ==
    \A i \in 1 .. Len(p) : Gives(p[i], "gcrc", TRUE) =>
        /\ p[i].do = "write" /\ i = Len(p)
        /\ c["gcrc"] = FALSE /\ c["txcc"] \in Chosen
        /\ \A j \in 1 .. i - 1 : "txcc" \notin DOMAIN Written(p[j])
        /\ NothingWaits(fifo) \/ Before(p, i, "flush_rx")

FlushDeaf(p, c) == \A i \in 1 .. Len(p) : p[i].do = "flush_rx" => c["gcrc"] = FALSE

ChooseDeaf(p, c) ==
    \A i \in 1 .. Len(p) : p[i].do = "write" /\ "txcc" \in DOMAIN Written(p[i]) =>
        c["gcrc"] = FALSE \/ Before(p, i, "sw_reset")

ResetOnce(p, S) ==
    \A i \in 1 .. Len(p) : p[i].do = "pd_reset" =>
        /\ p[i].arg \in S
        /\ \A j \in 1 .. i - 1 : p[j].do = "pd_reset" => p[j].arg # p[i].arg

OrderInv ==
    /\ chip["gcrc"] = TRUE \/ chip["gcrc"] = FALSE
    /\ EnableLast(todo, chip, rx_fifo) /\ FlushDeaf(todo, chip) /\ ChooseDeaf(todo, chip)
    /\ ResetOnce(todo, seen)

LEMMA GcrcBoolean ==
    ASSUME NEW a, WellFormed(a), "gcrc" \in DOMAIN Written(a)
    PROVE  Written(a)["gcrc"] = TRUE \/ Written(a)["gcrc"] = FALSE
  <1>1. CASE a.do \in {"write", "write_back"}
    <2>1. Written(a) = a.arg BY <1>1 DEF Written
    <2> QED BY <1>1, <2>1 DEF WellFormed
  <1>2. CASE a.do = "sw_reset"
    <2>1. Written(a) = [f \in DOMAIN a.arg \cup DOMAIN ResetRegisters |->
                           IF f \in DOMAIN a.arg THEN a.arg[f] ELSE ResetRegisters[f]]
      BY <1>2 DEF Written
    <2>2. "gcrc" \notin DOMAIN a.arg BY <1>2 DEF WellFormed
    <2>3. "gcrc" \in DOMAIN ResetRegisters /\ ResetRegisters["gcrc"] = FALSE BY DEF ResetRegisters
    <2> QED BY <2>1, <2>2, <2>3
  <1>3. CASE a.do \notin {"write", "write_back", "sw_reset"}
    <2>1. "gcrc" \notin DOMAIN Written(a) BY <1>3 DEF Written
    <2> QED BY <2>1
  <1> QED BY <1>1, <1>2, <1>3

LEMMA ResetWrites ==
    ASSUME NEW a, WellFormed(a), a.do = "sw_reset"
    PROVE  Gives(a, "gcrc", FALSE) /\ "txcc" \in DOMAIN Written(a)
  <1>1. Written(a) = [f \in DOMAIN a.arg \cup DOMAIN ResetRegisters |->
                         IF f \in DOMAIN a.arg THEN a.arg[f] ELSE ResetRegisters[f]]
    BY DEF Written
  <1>2. "gcrc" \notin DOMAIN a.arg BY DEF WellFormed
  <1>3. "gcrc" \in DOMAIN ResetRegisters /\ ResetRegisters["gcrc"] = FALSE
        /\ "txcc" \in DOMAIN ResetRegisters
    BY DEF ResetRegisters
  <1> QED BY <1>1, <1>2, <1>3 DEF Gives

LEMMA BeforeTail ==
    ASSUME NEW p, Program(p), p # << >>, NEW what, NEW i \in 1 .. Len(Tail(p)),
           Before(p, i + 1, what)
    PROVE  p[1].do = what \/ Before(Tail(p), i, what)
  <1> DEFINE q == Tail(p)
  <1>1. Len(q) \in Nat /\ \A j \in 1 .. Len(q) : q[j] = p[j + 1]
    BY ProgramTail DEF Program
  <1> HIDE DEF q
  <1>2. PICK j \in 1 .. (i + 1) - 1 : p[j].do = what BY DEF Before
  <1>3. CASE j = 1 BY <1>2, <1>3
  <1>4. CASE j # 1
    <2>1. i \in 1 .. Len(q) BY DEF q
    <2>2. j - 1 \in 1 .. i - 1 /\ j - 1 \in 1 .. Len(q) /\ (j - 1) + 1 = j BY <1>1, <1>4, <2>1
    <2>3. q[j - 1].do = what BY <1>1, <1>2, <2>2
    <2> QED BY <2>2, <2>3 DEF Before, q
  <1> QED BY <1>3, <1>4

\* The order holds for what is left after an access.
LEMMA TailOrder ==
    ASSUME NEW p, Program(p), p # << >>, NEW c, NEW c2, NEW fifo, NEW fifo2, NEW S, NEW S2,
           EnableLast(p, c, fifo), FlushDeaf(p, c), ChooseDeaf(p, c), ResetOnce(p, S),
           c2["gcrc"] = IF "gcrc" \in DOMAIN Written(p[1]) THEN Written(p[1])["gcrc"] ELSE c["gcrc"],
           c2["txcc"] = IF "txcc" \in DOMAIN Written(p[1]) THEN Written(p[1])["txcc"] ELSE c["txcc"],
           NothingWaits(fifo) \/ p[1].do = "flush_rx" => NothingWaits(fifo2),
           \A s \in S : (p[1].do = "pd_reset" /\ p[1].arg = s) \/ s \in S2
    PROVE  /\ EnableLast(Tail(p), c2, fifo2) /\ FlushDeaf(Tail(p), c2)
           /\ ChooseDeaf(Tail(p), c2) /\ ResetOnce(Tail(p), S2)
  <1>a. \A i \in 1 .. Len(Tail(p)) : \A what :
           Before(p, i + 1, what) => p[1].do = what \/ Before(Tail(p), i, what)
    BY BeforeTail
  <1> DEFINE q == Tail(p)
  <1>1. /\ Len(p) \in Nat /\ Len(p) > 0 /\ Len(q) \in Nat /\ Len(q) = Len(p) - 1
        /\ WellFormed(p[1]) /\ 1 \in 1 .. Len(p)
        /\ \A i \in 1 .. Len(q) : q[i] = p[i + 1] /\ i + 1 \in 1 .. Len(p)
    BY ProgramTail DEF Program
  <1>2. \A i \in 1 .. Len(q) : \A what :
           Before(p, i + 1, what) => p[1].do = what \/ Before(q, i, what)
    BY <1>a
  <1> HIDE DEF q
  <1>3. CASE Len(q) = 0
    <2>1. \A i : i \notin 1 .. Len(q) BY <1>3
    <2>2. EnableLast(q, c2, fifo2) BY <2>1, Zenon DEF EnableLast
    <2>3. FlushDeaf(q, c2) /\ ChooseDeaf(q, c2) BY <2>1, Zenon DEF FlushDeaf, ChooseDeaf
    <2>4. ResetOnce(q, S2) BY <2>1, Zenon DEF ResetOnce
    <2> QED BY <2>2, <2>3, <2>4 DEF q
  <1>4. CASE Len(q) # 0
    <2>1. ~Gives(p[1], "gcrc", TRUE)
      <3>1. Gives(p[1], "gcrc", TRUE) => 1 = Len(p) BY <1>1, Zenon DEF EnableLast
      <3>2. 1 # Len(p) BY <1>1, <1>4
      <3> QED BY <3>1, <3>2, Zenon
    <2>2. c["gcrc"] = FALSE => c2["gcrc"] = FALSE BY <1>1, <2>1, GcrcBoolean DEF Gives
    <2>3. p[1].do = "sw_reset" => c2["gcrc"] = FALSE BY <1>1, ResetWrites DEF Gives
    <2>4. FlushDeaf(q, c2) BY <1>1, <2>2 DEF FlushDeaf
    <2>5. ChooseDeaf(q, c2)
      <3> SUFFICES ASSUME NEW i \in 1 .. Len(q), q[i].do = "write", "txcc" \in DOMAIN Written(q[i])
                   PROVE  c2["gcrc"] = FALSE \/ Before(q, i, "sw_reset")
        BY DEF ChooseDeaf
      <3>1. c["gcrc"] = FALSE \/ Before(p, i + 1, "sw_reset") BY <1>1 DEF ChooseDeaf
      <3> QED BY <3>1, <2>2, <2>3, <1>2
    <2>6. ResetOnce(q, S2)
      <3> SUFFICES ASSUME NEW i \in 1 .. Len(q), q[i].do = "pd_reset"
                   PROVE  /\ q[i].arg \in S2
                          /\ \A j \in 1 .. i - 1 : q[j].do = "pd_reset" => q[j].arg # q[i].arg
        BY DEF ResetOnce
      <3>1. /\ p[i + 1] = q[i] /\ i + 1 \in 1 .. Len(p) /\ p[i + 1].arg \in S
            /\ \A j \in 1 .. (i + 1) - 1 : p[j].do = "pd_reset" => p[j].arg # p[i + 1].arg
        BY <1>1 DEF ResetOnce
      <3>2. 1 \in 1 .. (i + 1) - 1 BY <1>1
      <3>3. q[i].arg \in S2 BY <3>1, <3>2
      <3>4. ASSUME NEW j \in 1 .. i - 1, q[j].do = "pd_reset" PROVE q[j].arg # q[i].arg
        <4>1. j + 1 \in 1 .. (i + 1) - 1 /\ j \in 1 .. Len(q) BY <1>1
        <4> QED BY <4>1, <3>1, <3>4, <1>1
      <3> QED BY <3>3, <3>4
    <2>7. EnableLast(q, c2, fifo2)
      <3> SUFFICES ASSUME NEW i \in 1 .. Len(q), Gives(q[i], "gcrc", TRUE)
                   PROVE  /\ q[i].do = "write" /\ i = Len(q)
                          /\ c2["gcrc"] = FALSE /\ c2["txcc"] \in Chosen
                          /\ \A j \in 1 .. i - 1 : "txcc" \notin DOMAIN Written(q[j])
                          /\ NothingWaits(fifo2) \/ Before(q, i, "flush_rx")
        BY DEF EnableLast
      <3>1. /\ p[i + 1] = q[i] /\ i + 1 \in 1 .. Len(p)
            /\ p[i + 1].do = "write" /\ i + 1 = Len(p)
            /\ c["gcrc"] = FALSE /\ c["txcc"] \in Chosen
            /\ \A j \in 1 .. (i + 1) - 1 : "txcc" \notin DOMAIN Written(p[j])
            /\ NothingWaits(fifo) \/ Before(p, i + 1, "flush_rx")
        BY <1>1 DEF EnableLast
      <3>2. 1 \in 1 .. (i + 1) - 1 BY <1>1
      <3>3. c2["txcc"] \in Chosen BY <3>1, <3>2
      <3>4. ASSUME NEW j \in 1 .. i - 1 PROVE "txcc" \notin DOMAIN Written(q[j])
        <4>1. j + 1 \in 1 .. (i + 1) - 1 /\ j \in 1 .. Len(q) BY <1>1
        <4> QED BY <4>1, <3>1, <1>1
      <3>5. NothingWaits(fifo2) \/ Before(q, i, "flush_rx") BY <3>1, <1>2
      <3> QED BY <1>1, <2>2, <3>1, <3>3, <3>4, <3>5
    <2> QED BY <2>4, <2>5, <2>6, <2>7 DEF q
  <1> QED BY <1>3, <1>4

\* The order does not depend on accesses that neither write nor reset anything.
LEMMA ReplaceOrder ==
    ASSUME NEW q, Program(q), NEW a, WellFormed(a), NEW p,
           Len(p) = 1 + Len(q), \A i \in 1 .. Len(q) : q[i] = p[i + 1],
           a.do \in Measurements, p[1].do \in Measurements, NEW c, NEW fifo, NEW S,
           EnableLast(p, c, fifo), FlushDeaf(p, c), ChooseDeaf(p, c), ResetOnce(p, S)
    PROVE  /\ EnableLast(<< a >> \o q, c, fifo) /\ FlushDeaf(<< a >> \o q, c)
           /\ ChooseDeaf(<< a >> \o q, c) /\ ResetOnce(<< a >> \o q, S)
  <1> DEFINE r == Cons(a, q)
  <1>3. /\ Len(r) = 1 + Len(q) /\ r[1] = a /\ Len(q) \in Nat
        /\ \A i \in 1 .. Len(r) : i = 1 \/ (i - 1 \in 1 .. Len(q) /\ r[i] = q[i - 1])
    <2>1. /\ Program(Cons(a, q)) /\ Len(q) \in Nat
          /\ Len(Cons(a, q)) = 1 + Len(q) /\ Cons(a, q)[1] = a
          /\ \A i \in 1 .. Len(Cons(a, q)) :
                i = 1 \/ (i - 1 \in 1 .. Len(q) /\ Cons(a, q)[i] = q[i - 1])
      BY ConsProgram
    <2> QED BY <2>1
  <1>4. Len(r) = Len(p) /\ Len(p) \in Nat BY <1>3
  <1>5. ASSUME NEW i \in 1 .. Len(p), i # 1 PROVE r[i] = p[i]
    <2>1. i - 1 \in 1 .. Len(q) /\ r[i] = q[i - 1] /\ (i - 1) + 1 = i BY <1>3, <1>4, <1>5
    <2> QED BY <2>1
  <1>6. r[1].do \in Measurements /\ DOMAIN Written(r[1]) = {} /\ DOMAIN Written(p[1]) = {}
    BY <1>3, OthersWriteNothing DEF Measurements
  <1> HIDE DEF r
  <1>7. \A i \in 1 .. Len(p) : \A what \in {"flush_rx", "sw_reset"} :
           Before(p, i, what) => Before(r, i, what)
    <2> TAKE i \in 1 .. Len(p)
    <2> TAKE what \in {"flush_rx", "sw_reset"}
    <2> HAVE Before(p, i, what)
    <2>1. PICK j \in 1 .. i - 1 : p[j].do = what BY DEF Before
    <2>2. j \in 1 .. Len(p) /\ j # 1 BY <2>1, <1>4 DEF Measurements
    <2> QED BY <2>1, <2>2, <1>5 DEF Before
  <1>8. EnableLast(r, c, fifo)
    <2> SUFFICES ASSUME NEW i \in 1 .. Len(r), Gives(r[i], "gcrc", TRUE)
                 PROVE  /\ r[i].do = "write" /\ i = Len(r)
                        /\ c["gcrc"] = FALSE /\ c["txcc"] \in Chosen
                        /\ \A j \in 1 .. i - 1 : "txcc" \notin DOMAIN Written(r[j])
                        /\ NothingWaits(fifo) \/ Before(r, i, "flush_rx")
      BY DEF EnableLast
    <2>1. i # 1 /\ r[i] = p[i] /\ i \in 1 .. Len(p) BY <1>4, <1>5, <1>6 DEF Gives
    <2>2. /\ p[i].do = "write" /\ i = Len(p)
          /\ c["gcrc"] = FALSE /\ c["txcc"] \in Chosen
          /\ \A j \in 1 .. i - 1 : "txcc" \notin DOMAIN Written(p[j])
          /\ NothingWaits(fifo) \/ Before(p, i, "flush_rx")
      BY <2>1 DEF EnableLast
    <2>3. ASSUME NEW j \in 1 .. i - 1 PROVE "txcc" \notin DOMAIN Written(r[j])
      <3>1. j \in 1 .. Len(p) BY <2>1, <1>4
      <3> QED BY <3>1, <2>2, <1>5, <1>6
    <2> QED BY <2>1, <2>2, <2>3, <1>4, <1>7
  <1>9. FlushDeaf(r, c)
    BY <1>4, <1>5, <1>6 DEF FlushDeaf, Measurements
  <1>10. ChooseDeaf(r, c)
    BY <1>4, <1>5, <1>6, <1>7 DEF ChooseDeaf
  <1>11. ResetOnce(r, S)
    <2> SUFFICES ASSUME NEW i \in 1 .. Len(r), r[i].do = "pd_reset"
                 PROVE  /\ r[i].arg \in S
                        /\ \A j \in 1 .. i - 1 : r[j].do = "pd_reset" => r[j].arg # r[i].arg
      BY DEF ResetOnce
    <2>1. i # 1 /\ r[i] = p[i] /\ i \in 1 .. Len(p) BY <1>4, <1>5, <1>6 DEF Measurements
    <2>2. ASSUME NEW j \in 1 .. i - 1, r[j].do = "pd_reset" PROVE r[j].arg # r[i].arg
      <3>1. j \in 1 .. Len(p) /\ j # 1 BY <2>1, <2>2, <1>4, <1>6 DEF Measurements
      <3> QED BY <3>1, <2>1, <2>2, <1>5 DEF ResetOnce
    <2> QED BY <2>1, <2>2 DEF ResetOnce
  <1> QED BY <1>8, <1>9, <1>10, <1>11 DEF Cons, r

\* The accesses of the alert handler's answer, in this order.
LEMMA AnswerOrder ==
    ASSUME NEW S, NEW rd \in {<< >>, fusb302_tcpm_set_cc("RD")}, NEW flush \in BOOLEAN
    PROVE  /\ ResetOnce(Answer(S, rd, flush), S \cap Signals)
           /\ \A i \in 1 .. Len(Answer(S, rd, flush)) : Answer(S, rd, flush)[i].do = "flush_rx" => flush
  <1> DEFINE a == IF "HARDSENT" \in S THEN << PdReset("HARDSENT") >> ELSE << >>
             r == << PdReset("HARDRESET") >>
             b == IF "HARDRESET" \in S THEN r \o rd ELSE << >>
             c == IF flush THEN << FlushRx >> ELSE << >>
             NoReset(p) == \A i \in 1 .. Len(p) : p[i].do # "pd_reset"
             NoFlush(p) == \A i \in 1 .. Len(p) : p[i].do # "flush_rx"
  <1>1. Program(<< >>) /\ NoReset(<< >>) /\ NoFlush(<< >>) /\ Len(<< >>) = 0 BY DEF Program
  <1>2. ASSUME NEW s \in Signals
        PROVE  LET p == << PdReset(s) >> IN
               Program(p) /\ NoFlush(p) /\ Len(p) = 1 /\ p[1] = PdReset(s)
    BY DEF Program, PdReset, Access, WellFormed, Measurements
  <1>3. Program(r) /\ NoFlush(r) /\ Len(r) = 1 /\ r[1] = PdReset("HARDRESET")
    BY <1>2 DEF Signals
  <1>4. /\ Program(a) /\ NoFlush(a) /\ Len(a) \in {0, 1}
        /\ \A i \in 1 .. Len(a) : "HARDSENT" \in S /\ i = 1 /\ a[i] = PdReset("HARDSENT")
    <2> HIDE DEF NoFlush
    <2>1. CASE "HARDSENT" \in S
      <3>1. a = << PdReset("HARDSENT") >> BY <2>1
      <3> HIDE DEF a
      <3>2. Program(a) /\ NoFlush(a) /\ Len(a) = 1 /\ a[1] = PdReset("HARDSENT")
        BY <3>1, <1>2 DEF Signals
      <3> QED BY <2>1, <3>2
    <2>2. CASE "HARDSENT" \notin S BY <1>1, <2>2
    <2> QED BY <2>1, <2>2
  <1>5. Program(rd) /\ NoReset(rd) /\ NoFlush(rd)
    <2>1. CASE rd = << >> BY <2>1, <1>1
    <2>2. CASE rd = fusb302_tcpm_set_cc("RD")
      <3>1. Program(rd) /\ NoReset(rd) BY <2>2, SetCcPlain DEF Plain
      <3>2. NoFlush(rd) BY <2>2 DEF fusb302_tcpm_set_cc, Write, Access
      <3> QED BY <3>1, <3>2
    <2> QED BY <2>1, <2>2
  <1>6. Program(c) /\ NoReset(c) /\ (~flush => NoFlush(c))
    <2>1. CASE flush
      <3>1. Program(<< FlushRx >>) /\ NoReset(<< FlushRx >>)
        BY DEF Program, FlushRx, Access, WellFormed, Measurements
      <3> QED BY <2>1, <3>1
    <2>2. CASE ~flush BY <2>2, <1>1
    <2> QED BY <2>1, <2>2
  <1> HIDE DEF r
  <1>7. /\ Program(b) /\ NoFlush(b)
        /\ \A i \in 1 .. Len(b) : b[i].do = "pd_reset" =>
              "HARDRESET" \in S /\ i = 1 /\ b[i] = PdReset("HARDRESET")
    <2>1. CASE "HARDRESET" \in S
      <3>1. b = r \o rd BY <2>1
      <3> HIDE DEF b
      <3>2. /\ Program(r \o rd)
            /\ \A i \in 1 .. Len(r \o rd) :
                  \/ i \in 1 .. Len(r) /\ (r \o rd)[i] = r[i]
                  \/ i - Len(r) \in 1 .. Len(rd) /\ (r \o rd)[i] = rd[i - Len(r)]
        <4>1. Program(r) /\ Program(rd) BY <1>3, <1>5
        <4> QED BY <4>1, ProgramConcat
      <3> QED BY <2>1, <3>1, <3>2, <1>3, <1>5
    <2>2. CASE "HARDRESET" \notin S BY <1>1, <2>2
    <2> QED BY <2>1, <2>2
  <1> HIDE DEF a, b, c
  <1> DEFINE ab == a \o b
  <1>8. /\ Program(ab) /\ Len(a) \in Nat
        /\ \A i \in 1 .. Len(ab) :
              \/ i \in 1 .. Len(a) /\ ab[i] = a[i]
              \/ i - Len(a) \in 1 .. Len(b) /\ ab[i] = b[i - Len(a)]
    BY <1>4, <1>7, ProgramConcat
  <1> HIDE DEF ab
  <1>9. NoFlush(ab) BY <1>4, <1>7, <1>8
  <1>10. \A i \in 1 .. Len(ab) : ab[i].do = "pd_reset" =>
            \/ "HARDSENT" \in S /\ i = 1 /\ Len(a) = 1 /\ ab[i] = PdReset("HARDSENT")
            \/ "HARDRESET" \in S /\ i = Len(a) + 1 /\ ab[i] = PdReset("HARDRESET")
    BY <1>4, <1>7, <1>8
  <1> DEFINE abc == ab \o c
  <1>11. /\ Program(abc) /\ Len(ab) \in Nat
         /\ \A i \in 1 .. Len(abc) :
               \/ i \in 1 .. Len(ab) /\ abc[i] = ab[i]
               \/ i - Len(ab) \in 1 .. Len(c) /\ abc[i] = c[i - Len(ab)]
    <2>1. Program(ab) /\ Program(c) BY <1>6, <1>8
    <2> QED BY <2>1, ProgramConcat
  <1> HIDE DEF abc
  <1>12. \A i \in 1 .. Len(abc) : abc[i].do = "flush_rx" => flush BY <1>6, <1>9, <1>11
  <1>13. \A i \in 1 .. Len(abc) : abc[i].do = "pd_reset" =>
            \/ "HARDSENT" \in S /\ i = 1 /\ Len(a) = 1 /\ abc[i] = PdReset("HARDSENT")
            \/ "HARDRESET" \in S /\ i = Len(a) + 1 /\ abc[i] = PdReset("HARDRESET")
    BY <1>6, <1>10, <1>11
  <1>14. \A s : PdReset(s).arg = s BY DEF PdReset, Access
  <1>15. ResetOnce(abc, S \cap Signals)
    <2> SUFFICES ASSUME NEW i \in 1 .. Len(abc), abc[i].do = "pd_reset"
                 PROVE  /\ abc[i].arg \in S \cap Signals
                        /\ \A j \in 1 .. i - 1 : abc[j].do = "pd_reset" => abc[j].arg # abc[i].arg
      BY DEF ResetOnce
    <2>1. abc[i].arg \in S \cap Signals BY <1>13, <1>14 DEF Signals
    <2>2. ASSUME NEW j \in 1 .. i - 1, abc[j].do = "pd_reset" PROVE abc[j].arg # abc[i].arg
      <3>1. j \in 1 .. Len(abc) /\ j < i /\ Len(a) \in Nat BY <1>8, <1>11 DEF Program
      <3>2. j = 1 /\ i = Len(a) + 1 /\ abc[j] = PdReset("HARDSENT") /\ abc[i] = PdReset("HARDRESET")
        BY <3>1, <2>2, <1>13
      <3> QED BY <3>2, <1>14
    <2> QED BY <2>1, <2>2
  <1>16. Answer(S, rd, flush) = abc BY DEF Answer, abc, ab, a, b, c, r
  <1> QED BY <1>12, <1>15, <1>16

LEMMA BusOrder ==
    ASSUME ReadsFail = FALSE, TypeInv, RegisterInv, OrderInv, Bus
    PROVE  OrderInv'
  <1>1. Handles(todo, seen) /\ Program(todo) BY DEF TypeInv, Handles
  <1>2. DOMAIN chip = ChipFields /\ "gcrc" \in ChipFields /\ "txcc" \in ChipFields
    BY DEF RegisterInv, ChipFields, ResetRegisters
  <1>3. /\ todo # << >> /\ Head(todo) = todo[1]
        /\ \A f \in ChipFields :
              chip'[f] = IF f \in DOMAIN Written(todo[1]) THEN Written(todo[1])[f] ELSE chip[f]
    BY <1>1, <1>2, AccessEffect
  <1>4. WellFormed(todo[1]) /\ 1 \in 1 .. Len(todo) /\ Len(todo) \in Nat BY <1>1, <1>3, ProgramTail
  <1>5. chip'["gcrc"] = TRUE \/ chip'["gcrc"] = FALSE
    BY <1>2, <1>3, <1>4, GcrcBoolean DEF OrderInv
  <1>6. (NothingWaits(rx_fifo) => NothingWaits(rx_fifo')) /\ (todo[1].do = "flush_rx" => NothingWaits(rx_fifo'))
    <2>1. rx_fifo' \in {rx_fifo, << >>} \/ (rx_fifo # << >> /\ rx_fifo' = Tail(rx_fifo) /\ Do("take"))
      BY DEF Bus, DoWrite, DoWriteBack, DoSwReset, DoPdReset, DoFlushRx, DoFlushTx, DoSend,
             DoComp, DoCompRd, DoBcLvl, DoRead, DoHandle, DoTake
    <2>2. todo[1].do = "flush_rx" => rx_fifo' = << >>
      BY <1>3 DEF Bus, DoWrite, DoWriteBack, DoSwReset, DoPdReset, DoFlushRx, DoFlushTx, DoSend,
             DoComp, DoCompRd, DoBcLvl, DoRead, DoHandle, DoTake, Do
    <2>3. NothingWaits(<< >>) BY DEF NothingWaits
    <2>4. ASSUME rx_fifo # << >>, NothingWaits(rx_fifo) PROVE NothingWaits(Tail(rx_fifo))
      <3>1. rx_fifo \in Seq(Packets) BY DEF TypeInv
      <3>2. /\ Tail(rx_fifo) \in Seq(Packets)
            /\ Len(rx_fifo) \in Nat /\ Len(Tail(rx_fifo)) = Len(rx_fifo) - 1
            /\ \A i \in 1 .. Len(Tail(rx_fifo)) : Tail(rx_fifo)[i] = rx_fifo[i + 1]
        BY <2>4, FifoTail
      <3>3. DOMAIN rx_fifo = 1 .. Len(rx_fifo) /\ DOMAIN Tail(rx_fifo) = 1 .. Len(Tail(rx_fifo))
        BY <3>1, <3>2, LenProperties
      <3> QED BY <2>4, <3>2, <3>3 DEF NothingWaits
    <2> QED BY <2>1, <2>2, <2>3, <2>4
  <1>7. CASE ~Do("handle")
    <2>1. \A s \in seen : (todo[1].do = "pd_reset" /\ todo[1].arg = s) \/ s \in seen'
      BY <1>3, <1>7 DEF Bus, DoWrite, DoWriteBack, DoSwReset, DoPdReset, DoFlushRx, DoFlushTx, DoSend,
             DoComp, DoCompRd, DoBcLvl, DoRead, DoHandle, DoTake, Do
    <2>2. CASE todo' = Tail(todo)
      <3>1. /\ chip'["gcrc"] = IF "gcrc" \in DOMAIN Written(todo[1]) THEN Written(todo[1])["gcrc"] ELSE chip["gcrc"]
            /\ chip'["txcc"] = IF "txcc" \in DOMAIN Written(todo[1]) THEN Written(todo[1])["txcc"] ELSE chip["txcc"]
        BY <1>2, <1>3
      <3>2. /\ EnableLast(todo, chip, rx_fifo) /\ FlushDeaf(todo, chip)
            /\ ChooseDeaf(todo, chip) /\ ResetOnce(todo, seen)
        BY DEF OrderInv
      <3>3. /\ EnableLast(Tail(todo), chip', rx_fifo') /\ FlushDeaf(Tail(todo), chip')
            /\ ChooseDeaf(Tail(todo), chip') /\ ResetOnce(Tail(todo), seen')
        BY <1>1, <1>3, <1>6, <2>1, <3>1, <3>2, TailOrder
      <3> QED BY <1>5, <2>2, <3>3 DEF OrderInv
    <2>3. CASE /\ Do("comp_vnc") /\ chip' = chip
               /\ todo' = << Access("comp_rd", Head(todo).arg) >> \o Tail(todo)
      <3> DEFINE a == Access("comp_rd", todo[1].arg)
      <3>1. todo[1].do = "comp_vnc" BY <1>3, <2>3 DEF Do
      <3>2. WellFormed(a) /\ a.do \in Measurements /\ todo[1].do \in Measurements
        BY <1>4, <3>1 DEF WellFormed, Access, Measurements
      <3>3. Program(Tail(todo)) BY <1>1, <1>3, ProgramTail
      <3>4. /\ Len(todo) = 1 + Len(Tail(todo))
            /\ \A i \in 1 .. Len(Tail(todo)) : Tail(todo)[i] = todo[i + 1]
        BY <1>1, <1>3, ProgramTail
      <3>5. rx_fifo' = rx_fifo /\ seen' = seen
        BY <1>3, <3>1 DEF Bus, DoWrite, DoWriteBack, DoSwReset, DoPdReset, DoFlushRx, DoFlushTx, DoSend,
             DoComp, DoCompRd, DoBcLvl, DoRead, DoHandle, DoTake, Do
      <3> HIDE DEF a
      <3>6. /\ EnableLast(todo, chip, rx_fifo) /\ FlushDeaf(todo, chip)
            /\ ChooseDeaf(todo, chip) /\ ResetOnce(todo, seen)
        BY DEF OrderInv
      <3>7. /\ EnableLast(<< a >> \o Tail(todo), chip, rx_fifo) /\ FlushDeaf(<< a >> \o Tail(todo), chip)
            /\ ChooseDeaf(<< a >> \o Tail(todo), chip) /\ ResetOnce(<< a >> \o Tail(todo), seen)
        BY <3>2, <3>3, <3>4, <3>6, ReplaceOrder
      <3>8. todo' = << a >> \o Tail(todo) BY <1>3, <2>3 DEF a
      <3> QED BY <1>5, <2>3, <3>5, <3>7, <3>8 DEF OrderInv
    <2>4. CASE Do("take") /\ todo' = todo /\ chip' = chip
      <3>1. todo[1].do = "take" BY <1>3, <2>4 DEF Do
      <3>2. seen \subseteq seen' BY <2>1, <3>1
      <3>3. EnableLast(todo, chip, rx_fifo') BY <1>6 DEF OrderInv, EnableLast
      <3>4. ResetOnce(todo, seen') BY <3>2 DEF OrderInv, ResetOnce
      <3> QED BY <1>5, <2>4, <3>3, <3>4 DEF OrderInv
    <2> QED BY <1>1, <1>7, <2>2, <2>3, <2>4, AccessContinues
  <1>8. CASE Do("handle")
    <2>1. todo[1].do = "handle" BY <1>3, <1>8 DEF Do
    <2>2. Len(todo) = 1 BY <1>1, <1>4, <2>1 DEF Handles
    <2>3. DoHandle
      BY <1>8 DEF Bus, DoWrite, DoWriteBack, DoSwReset, DoPdReset, DoFlushRx, DoFlushTx, DoSend,
                  DoComp, DoCompRd, DoBcLvl, DoRead, DoTake, Do
    <2> DEFINE flush == "GCRCSENT" \in seen /\ chip.rx_enable = 0
    <2>4. PICK rd \in {<< >>, fusb302_tcpm_set_cc("RD")} : todo' = Answer(seen, rd, flush)
      BY <2>3 DEF DoHandle, Answer
    <2>5. chip' = chip /\ seen' = seen \cap Signals BY <2>3 DEF DoHandle, Signals
    <2>6. flush => chip["gcrc"] = FALSE
      <3>1. ASSUME NEW f, NEW v, Settles(chip, todo, f, v) PROVE chip[f] = v
        <4>1. DOMAIN Written(todo[1]) = {} BY <2>1, OthersWriteNothing
        <4> QED BY <4>1, <2>2, <3>1 DEF Settles, Ends, Gives
      <3>2. PICK pin \in Pins : Deaf(pin) \/ Listening(pin) BY DEF RegisterInv, ReceiverSettles
      <3>3. Listening(pin) => chip.rx_enable = 1 BY <3>1 DEF Listening, Will
      <3>4. Deaf(pin) => chip["gcrc"] = FALSE BY <3>1 DEF Deaf, Will
      <3> QED BY <3>2, <3>3, <3>4
    <2>7. flush \in BOOLEAN OBVIOUS
    <2> HIDE DEF flush
    <2>8. ResetOnce(todo', seen') BY <2>4, <2>5, <2>7, AnswerOrder
    <2>9. FlushDeaf(todo', chip') BY <2>4, <2>5, <2>6, <2>7, AnswerOrder DEF FlushDeaf
    <2>10. Untouched(todo', "gcrc") /\ Untouched(todo', "txcc")
      <3>1. \A f : f \notin {"pulling_up", "pu", "pd", "bist2"} => Untouched(todo', f)
        BY <2>4, <2>7, AnswerWrites
      <3> QED BY <3>1
    <2>11. EnableLast(todo', chip', rx_fifo') BY <2>10 DEF EnableLast, Untouched, Gives
    <2>12. ChooseDeaf(todo', chip') BY <2>10 DEF ChooseDeaf, Untouched
    <2> QED BY <1>5, <2>8, <2>9, <2>11, <2>12 DEF OrderInv
  <1> QED BY <1>7, <1>8

\* A call that touches neither AUTO_GCRC nor the Tx pin, flushes and resets nothing.
LEMMA QuietOrder ==
    ASSUME OrderInv, RegisterInv, NEW p, Call(p, chip), Untouched(p, "gcrc"), Untouched(p, "txcc"),
           \A i \in 1 .. Len(p) : p[i].do \notin {"flush_rx", "pd_reset"}
    PROVE  OrderInv'
  <1>1. todo' = p /\ chip' = chip BY DEF Call
  <1>2. EnableLast(p, chip, rx_fifo') BY DEF EnableLast, Untouched, Gives
  <1>3. FlushDeaf(p, chip) /\ ResetOnce(p, seen') BY DEF FlushDeaf, ResetOnce
  <1>4. ChooseDeaf(p, chip) BY DEF ChooseDeaf, Untouched
  <1>5. chip["gcrc"] = TRUE \/ chip["gcrc"] = FALSE BY DEF OrderInv
  <1> QED BY <1>1, <1>2, <1>3, <1>4, <1>5 DEF OrderInv

LEMMA FlushRxWritesBist2 ==
    ASSUME NEW a, a.do = "flush_rx"
    PROVE  "bist2" \in DOMAIN Written(a)
  BY DEF Written

\* A call that does not write the BIST bit does not flush the Rx FIFO.
LEMMA PlainQuiet ==
    ASSUME NEW p, Plain(p), Untouched(p, "bist2")
    PROVE  \A i \in 1 .. Len(p) : p[i].do \notin {"flush_rx", "pd_reset"}
  BY FlushRxWritesBist2 DEF Plain, Untouched

LEMMA GetCcQuiet ==
    ASSUME NEW c, NEW f, f \notin {"meas", "pu"}
    PROVE  Untouched(fusb302_tcpm_get_cc(c), f)
  <1>1. CASE c.pulling_up = 1
    <2>1. Program(fusb302_measure_cc_pin_source(c, 1)) /\ Program(fusb302_measure_cc_pin_source(c, 2))
      BY MeasureSourcePlain DEF Plain, Pins
    <2> QED BY <2>1, <1>1, MeasureWrites, UntouchedConcat DEF fusb302_tcpm_get_cc
  <1>2. CASE c.pulling_up # 1
    BY <1>2, DetectWrites DEF fusb302_tcpm_get_cc
  <1> QED BY <1>1, <1>2

LEMMA SetPolarityOrder ==
    ASSUME OrderInv, RegisterInv, SetPolarity
    PROVE  OrderInv'
  <1>1. PICK polarity \in {0, 1} :
           chip.rx_enable = 0 /\ Call(fusb302_tcpm_set_polarity(polarity), chip)
    BY DEF SetPolarity
  <1> DEFINE p == fusb302_tcpm_set_polarity(polarity)
  <1>2. todo = << >> /\ todo' = p /\ chip' = chip BY <1>1 DEF Call
  <1>3. Plain(p) BY SetPolarityPlain
  <1>4. \A f \in {"gcrc", "bist2"} : Untouched(p, f) BY SetPolarityWrites
  <1> HIDE DEF p
  <1>5. chip["gcrc"] = FALSE
    <2>1. \A f, v : Will(f, v) => chip[f] = v BY <1>2, CallFields
    <2>2. PICK pin \in Pins : Deaf(pin) \/ Listening(pin) BY DEF RegisterInv, ReceiverSettles
    <2>3. Listening(pin) => chip.rx_enable = 1 BY <2>1 DEF Listening
    <2>4. Deaf(pin) => chip["gcrc"] = FALSE BY <2>1 DEF Deaf
    <2> QED BY <1>1, <2>2, <2>3, <2>4
  <1>6. \A i \in 1 .. Len(p) : p[i].do \notin {"flush_rx", "pd_reset"} BY <1>3, <1>4, PlainQuiet
  <1>7. EnableLast(p, chip, rx_fifo') BY <1>4 DEF EnableLast, Untouched, Gives
  <1>8. FlushDeaf(p, chip) /\ ResetOnce(p, seen') BY <1>6 DEF FlushDeaf, ResetOnce
  <1>9. ChooseDeaf(p, chip) BY <1>5 DEF ChooseDeaf
  <1> QED BY <1>2, <1>5, <1>7, <1>8, <1>9 DEF OrderInv

LEMMA EnableAccesses ==
    ASSUME NEW c
    PROVE  LET p == fusb302_tcpm_set_rx_enable(c, 1) IN
           /\ Len(p) = 4 /\ p[4].do = "write" /\ p[3].do = "flush_rx"
           /\ \A i \in 1 .. 3 : "gcrc" \notin DOMAIN Written(p[i])
           /\ \A i \in 1 .. 4 : "txcc" \notin DOMAIN Written(p[i])
  BY WriteWrites, FlushRxWrites DEF fusb302_tcpm_set_rx_enable, Write, FlushRx, Access

LEMMA SetRxEnableOrder ==
    ASSUME OrderInv, RegisterInv, SetRxEnable
    PROVE  OrderInv'
  <1>1. PICK enable \in {0, 1} :
           /\ enable = 1 => chip.rx_enable = 0
           /\ Call(fusb302_tcpm_set_rx_enable(chip, enable), [chip EXCEPT !.rx_enable = enable])
    BY DEF SetRxEnable
  <1> DEFINE p == fusb302_tcpm_set_rx_enable(chip, enable)
  <1>2. todo = << >> /\ todo' = p /\ chip'["gcrc"] = chip["gcrc"] /\ chip'["txcc"] = chip["txcc"]
    <2>1. chip' = [chip EXCEPT !.rx_enable = enable] /\ todo = << >> /\ todo' = p BY <1>1 DEF Call
    <2>2. "gcrc" \in DOMAIN chip /\ "txcc" \in DOMAIN chip
      BY DEF RegisterInv, ChipFields, ResetRegisters
    <2> HIDE DEF p
    <2> QED BY <2>1, <2>2
  <1>3. Plain(p) BY SetRxEnablePlain
  <1>4. chip'["gcrc"] = TRUE \/ chip'["gcrc"] = FALSE BY <1>2 DEF OrderInv
  <1>5. Untouched(p, "txcc")
    <2>1. "txcc" \notin {"gcrc", "bc_lvl", "bist2", "meas"} OBVIOUS
    <2> QED BY <2>1, EnableWrites, DisableWrites
  <1>6. ResetOnce(p, seen') BY <1>3 DEF ResetOnce, Plain
  <1>7. ChooseDeaf(p, chip') BY <1>5 DEF ChooseDeaf, Untouched
  <1>8. CASE enable = 1
    <2>1. p = fusb302_tcpm_set_rx_enable(chip, 1) BY <1>8
    <2> HIDE DEF p
    <2>2. /\ Len(p) = 4 /\ p[4].do = "write" /\ p[3].do = "flush_rx"
          /\ \A i \in 1 .. 3 : "gcrc" \notin DOMAIN Written(p[i])
          /\ \A i \in 1 .. 4 : "txcc" \notin DOMAIN Written(p[i])
      BY <2>1, EnableAccesses
    <2>3. chip["gcrc"] = FALSE /\ chip["txcc"] \in Chosen
      <3>1. \A f, v : Will(f, v) => chip[f] = v BY <1>2, CallFields
      <3>2. PICK pin \in Pins : Deaf(pin) \/ Listening(pin) BY DEF RegisterInv, ReceiverSettles
      <3>3. Listening(pin) => chip.rx_enable = 1 BY <3>1 DEF Listening
      <3>4. Deaf(pin) => chip["gcrc"] = FALSE BY <3>1 DEF Deaf
      <3>5. Deaf(pin) => chip["txcc"] = {pin} BY <3>1 DEF Deaf
      <3> QED BY <1>1, <1>8, <3>2, <3>3, <3>4, <3>5 DEF Chosen
    <2>4. FlushDeaf(p, chip') BY <1>2, <2>3 DEF FlushDeaf
    <2>5. EnableLast(p, chip', rx_fifo')
      <3> SUFFICES ASSUME NEW i \in 1 .. Len(p), Gives(p[i], "gcrc", TRUE)
                   PROVE  /\ p[i].do = "write" /\ i = Len(p)
                          /\ chip'["gcrc"] = FALSE /\ chip'["txcc"] \in Chosen
                          /\ \A j \in 1 .. i - 1 : "txcc" \notin DOMAIN Written(p[j])
                          /\ NothingWaits(rx_fifo') \/ Before(p, i, "flush_rx")
        BY DEF EnableLast
      <3>1. i = 4 BY <2>2 DEF Gives
      <3>2. 3 \in 1 .. i - 1 BY <3>1
      <3>3. Before(p, i, "flush_rx") BY <2>2, <3>2 DEF Before
      <3> QED BY <1>2, <2>2, <2>3, <3>1, <3>3
    <2> QED BY <1>2, <1>4, <1>6, <1>7, <2>4, <2>5 DEF OrderInv, p
  <1>9. CASE enable = 0
    <2>1. p = fusb302_tcpm_set_rx_enable(chip, 0) BY <1>9
    <2>2. \A i \in 1 .. Len(p) : p[i].do # "flush_rx" /\ ~Gives(p[i], "gcrc", TRUE)
      BY <2>1, WriteWrites DEF fusb302_tcpm_set_rx_enable, Write, Access, Gives
    <2> HIDE DEF p
    <2>3. FlushDeaf(p, chip') /\ EnableLast(p, chip', rx_fifo') BY <2>2, Zenon DEF FlushDeaf, EnableLast
    <2> QED BY <1>2, <1>4, <1>6, <1>7, <2>3 DEF OrderInv, p
  <1> QED BY <1>8, <1>9

LEMMA ProtocolOrder ==
    ASSUME OrderInv, RegisterInv, Protocol
    PROVE  OrderInv'
  <1>1. CASE GetCc
    <2>1. Plain(fusb302_tcpm_get_cc(chip)) BY GetCcPlain
    <2>2. \A f \in {"gcrc", "txcc", "bist2"} : Untouched(fusb302_tcpm_get_cc(chip), f) BY GetCcQuiet
    <2> QED BY <1>1, <2>1, <2>2, PlainQuiet, QuietOrder DEF GetCc
  <1>2. CASE SetPolarity BY <1>2, SetPolarityOrder
  <1>3. CASE SetRxEnable BY <1>3, SetRxEnableOrder
  <1>4. CASE \E pull \in {"RP", "RD"} : Call(fusb302_tcpm_set_cc(pull), chip)
    <2>1. PICK pull \in {"RP", "RD"} : Call(fusb302_tcpm_set_cc(pull), chip) BY <1>4
    <2>2. Plain(fusb302_tcpm_set_cc(pull)) BY SetCcPlain
    <2>3. \A f \in {"gcrc", "txcc", "bist2"} : Untouched(fusb302_tcpm_set_cc(pull), f)
      BY SetCcWrites
    <2> QED BY <2>1, <2>2, <2>3, PlainQuiet, QuietOrder
  <1>5. CASE \E roles \in Headers : Call(fusb302_tcpm_set_msg_header(roles[1], roles[2]), chip)
    <2>1. PICK roles \in Headers : Call(fusb302_tcpm_set_msg_header(roles[1], roles[2]), chip)
      BY <1>5
    <2>2. Plain(fusb302_tcpm_set_msg_header(roles[1], roles[2])) BY SetHeaderPlain
    <2>3. \A f \in {"gcrc", "txcc", "bist2"} :
             Untouched(fusb302_tcpm_set_msg_header(roles[1], roles[2]), f)
      BY SetHeaderWrites
    <2> QED BY <2>1, <2>2, <2>3, PlainQuiet, QuietOrder
  <1>6. CASE \E type \in {"SOP", "HARD_RESET", "BIST"} : Call(fusb302_tcpm_transmit(type), chip)
    <2>1. PICK type \in {"SOP", "HARD_RESET", "BIST"} : Call(fusb302_tcpm_transmit(type), chip)
      BY <1>6
    <2> DEFINE p == fusb302_tcpm_transmit(type)
    <2>2. /\ \A i \in 1 .. Len(p) : p[i].do \notin {"flush_rx", "pd_reset"}
          /\ \A f \in {"gcrc", "txcc"} : Untouched(p, f)
      <3>1. CASE type = "BIST"
        BY <3>1, WriteWrites, OthersWriteNothing
           DEF fusb302_tcpm_transmit, Untouched, FlushTx, Write, Access
      <3>2. CASE type # "BIST"
        BY <3>2, OthersWriteNothing DEF fusb302_tcpm_transmit, Untouched, FlushTx, Access
      <3> QED BY <3>1, <3>2
    <2> QED BY <2>1, <2>2, QuietOrder
  <1>7. CASE Call(fusb302_tcpm_get_message, chip) \/ Call(fusb302_tcpc_alert, chip)
    <2>1. \A f : Untouched(fusb302_tcpm_get_message, f) /\ Untouched(fusb302_tcpc_alert, f)
      BY MessageAndAlertWriteNothing
    <2>2. /\ \A i \in 1 .. Len(fusb302_tcpm_get_message) :
                fusb302_tcpm_get_message[i].do \notin {"flush_rx", "pd_reset"}
          /\ \A i \in 1 .. Len(fusb302_tcpc_alert) :
                fusb302_tcpc_alert[i].do \notin {"flush_rx", "pd_reset"}
      BY DEF fusb302_tcpm_get_message, fusb302_tcpc_alert, Access
    <2> QED BY <1>7, <2>1, <2>2, QuietOrder
  <1> QED BY <1>1, <1>2, <1>3, <1>4, <1>5, <1>6, <1>7 DEF Protocol, Others

\* setup() resets the chip first of all, switches the receiver on nowhere and flushes nothing.
LEMMA SetupAccesses ==
    /\ Len(Setup) \in Nat /\ Setup[1].do = "sw_reset" /\ WellFormed(Setup[1])
    /\ \A i \in 1 .. Len(Setup) :
          Setup[i].do \notin {"flush_rx", "pd_reset"} /\ ~Gives(Setup[i], "gcrc", TRUE)
  <1> DEFINE a == Access("sw_reset",
                       [ cc_polarity |-> -1,
                         mdac_vnc |-> TCPC_REG_MEASURE_MDAC_MV(1600),
                         mdac_rd |-> TCPC_REG_MEASURE_MDAC_MV(200) ])
             p == << a, Write([ retries |-> 3 ]), Write([ bc_lvl |-> TRUE ]),
                     Write([ int_mask |-> FALSE ]) >>
             s == fusb302_tcpm_set_polarity(0)
             q == << Write([ gcrc |-> FALSE ]), Write([ on |-> TRUE ]) >>
             d == << Write([ rx_enable |-> 0, meas |-> {} ]), Write([ bc_lvl |-> TRUE ]),
                     Write([ gcrc |-> FALSE ]) >>
             r == fusb302_tcpm_select_rp_value(CONFIG_USB_PD_PULLUP)
             t == fusb302_tcpm_set_cc("RD")
             Off(x) == \A i \in 1 .. Len(x) : x[i].do # "flush_rx" /\ ~Gives(x[i], "gcrc", TRUE)
  <1>1. Program(p) /\ Program(q) /\ Program(d)
    <2>1. Program(p) BY DEF Program, WellFormed, OneRegister, Write, Access, Measurements
    <2>2. Program(q) BY DEF Program, WellFormed, OneRegister, Write, Access, Measurements
    <2>3. Program(d) BY DEF Program, WellFormed, OneRegister, Write, Access, Measurements
    <2> QED BY <2>1, <2>2, <2>3
  <1>2. WellFormed(a) /\ a.do = "sw_reset" BY DEF WellFormed, Access, Measurements
  <1> HIDE DEF a
  <1>3. Off(p)
    <2>1. ~Gives(a, "gcrc", TRUE)
      <3>1. Gives(a, "gcrc", FALSE) BY <1>2, ResetWrites
      <3> QED BY <3>1 DEF Gives
    <2> QED BY <1>2, <2>1, WriteWrites DEF Gives, Write, Access
  <1>4. Off(q) BY WriteWrites DEF Gives, Write, Access
  <1>5. Off(d) BY WriteWrites DEF Gives, Write, Access
  <1>6. Off(s) BY WriteWrites DEF fusb302_tcpm_set_polarity, Gives, Write, Access
  <1>7. Off(r) BY WriteWrites DEF fusb302_tcpm_select_rp_value, Gives, Write, Access
  <1>8. Off(t) BY WriteWrites DEF fusb302_tcpm_set_cc, Gives, Write, Access
  <1>9. Program(s) /\ Program(r) /\ Program(t)
    BY SetPolarityPlain, SelectRpPlain, SetCcPlain DEF Plain
  <1>10. ASSUME NEW x, Program(x), NEW y, Program(y), Off(x), Off(y)
         PROVE  Program(x \o y) /\ Off(x \o y)
    <2>1. Program(x \o y) BY <1>10, ProgramConcat
    <2>2. ASSUME NEW i \in 1 .. Len(x \o y)
          PROVE  (x \o y)[i].do # "flush_rx" /\ ~Gives((x \o y)[i], "gcrc", TRUE)
      <3>1. \/ i \in 1 .. Len(x) /\ (x \o y)[i] = x[i]
            \/ i - Len(x) \in 1 .. Len(y) /\ (x \o y)[i] = y[i - Len(x)]
        BY <1>10, ProgramConcat
      <3>2. CASE i \in 1 .. Len(x) /\ (x \o y)[i] = x[i] BY <3>2, <1>10, Zenon
      <3>3. CASE i - Len(x) \in 1 .. Len(y) /\ (x \o y)[i] = y[i - Len(x)] BY <3>3, <1>10, Zenon
      <3> QED BY <3>1, <3>2, <3>3
    <2> QED BY <2>1, <2>2
  <1>11. Len(p) = 4 /\ p[1] = a OBVIOUS
  <1> DEFINE First(x) == 1 \in 1 .. Len(x) /\ x[1] = a
  <1>12. First(p) BY <1>11
  <1>13. ASSUME NEW x, Program(x), NEW y, Program(y), First(x) PROVE First(x \o y)
    BY <1>13, ConcatFirst
  <1> HIDE DEF p, q, d, s, r, t, Off, First
  <1> DEFINE ps == p \o s
             psq == ps \o q
             ii == psq \o psq
             id == ii \o d
             ir == id \o r
  <1>14. Program(ps) /\ Off(ps) /\ First(ps) BY <1>1, <1>3, <1>6, <1>9, <1>10, <1>12, <1>13
  <1> HIDE DEF ps
  <1>15. Program(psq) /\ Off(psq) /\ First(psq) BY <1>1, <1>4, <1>10, <1>13, <1>14
  <1> HIDE DEF psq
  <1>16. Program(ii) /\ Off(ii) /\ First(ii) BY <1>10, <1>13, <1>15
  <1> HIDE DEF ii
  <1>17. Program(id) /\ Off(id) /\ First(id) BY <1>1, <1>5, <1>10, <1>13, <1>16
  <1> HIDE DEF id
  <1>18. Program(ir) /\ Off(ir) /\ First(ir) BY <1>7, <1>9, <1>10, <1>13, <1>17
  <1> HIDE DEF ir
  <1>19. Program(ir \o t) /\ Off(ir \o t) /\ First(ir \o t) BY <1>8, <1>9, <1>10, <1>13, <1>18
  <1>20. Setup = ir \o t
    <2>1. fusb302_tcpm_init = psq BY DEF fusb302_tcpm_init, psq, ps, p, q, s, a
    <2> QED BY <2>1 DEF Setup, ir, id, ii, d, r, t
  <1>21. Off(Setup) /\ First(Setup) BY <1>19, <1>20
  <1>22. Plain(Setup) BY SetupPlain
  <1>23. /\ \A i \in 1 .. Len(Setup) : Setup[i].do # "flush_rx" /\ ~Gives(Setup[i], "gcrc", TRUE)
         /\ Setup[1] = a
    BY <1>21 DEF Off, First
  <1>24. Len(Setup) \in Nat /\ \A i \in 1 .. Len(Setup) : Setup[i].do # "pd_reset"
    BY <1>22 DEF Plain, Program
  <1> QED BY <1>2, <1>23, <1>24

LEMMA SetupOrder ==
    ASSUME NEW c, NEW fifo, NEW S
    PROVE  /\ EnableLast(Setup, c, fifo) /\ FlushDeaf(Setup, c)
           /\ ChooseDeaf(Setup, c) /\ ResetOnce(Setup, S)
  <1>1. EnableLast(Setup, c, fifo) BY SetupAccesses, Zenon DEF EnableLast
  <1>2. FlushDeaf(Setup, c) /\ ResetOnce(Setup, S) BY SetupAccesses DEF FlushDeaf, ResetOnce
  <1>3. ASSUME NEW i \in 1 .. Len(Setup), Setup[i].do = "write" PROVE Before(Setup, i, "sw_reset")
    <2>1. i # 1 BY <1>3, SetupAccesses
    <2>2. 1 \in 1 .. i - 1 BY <2>1, SetupAccesses
    <2> QED BY <2>2, SetupAccesses DEF Before
  <1>4. ChooseDeaf(Setup, c) BY <1>3 DEF ChooseDeaf
  <1> QED BY <1>1, <1>2, <1>4

LEMMA OrderInit == Init => OrderInv
  <1> SUFFICES ASSUME Init PROVE OrderInv OBVIOUS
  <1>1. chip["gcrc"] = FALSE BY DEF Init, ResetRegisters
  <1> QED BY <1>1, SetupOrder DEF Init, OrderInv

\* Only a chip that acknowledges makes a message wait.
LEMMA EnvironmentOrder ==
    ASSUME TypeInv, RegisterInv, OrderInv,
           Reboot \/ PacketArrives \/ HardResetArrives \/ TxDone \/ Plug
    PROVE  OrderInv'
  <1>1. CASE Reboot
    <2>1. chip'["gcrc"] = chip["gcrc"]
      BY <1>1 DEF Reboot, Assign, ZeroedMemory, RegisterInv, ChipFields, ResetRegisters
    <2>2. chip'["gcrc"] = TRUE \/ chip'["gcrc"] = FALSE BY <2>1 DEF OrderInv
    <2>3. todo' = Setup BY <1>1 DEF Reboot
    <2> QED BY <2>2, <2>3, SetupOrder DEF OrderInv
  <1>2. CASE PacketArrives \/ HardResetArrives \/ TxDone \/ Plug
    <2>1. chip' = chip /\ todo' = todo /\ seen' = seen
      BY <1>2 DEF PacketArrives, HardResetArrives, TxDone, TxEnds, Plug
    <2>2. ASSUME NEW packet, packet # "acked", NothingWaits(rx_fifo), Len(rx_fifo) < FifoDepth
          PROVE  NothingWaits(Append(rx_fifo, packet))
      <3>1. rx_fifo \in Seq(Packets \cup {packet}) BY SeqMonotonic DEF TypeInv
      <3>2. /\ Len(Append(rx_fifo, packet)) = Len(rx_fifo) + 1 /\ Len(rx_fifo) \in Nat
            /\ Append(rx_fifo, packet) \in Seq(Packets \cup {packet})
            /\ \A i \in 1 .. Len(rx_fifo) : Append(rx_fifo, packet)[i] = rx_fifo[i]
            /\ Append(rx_fifo, packet)[Len(rx_fifo) + 1] = packet
        BY <3>1, AppendProperties, LenProperties
      <3>3. /\ DOMAIN rx_fifo = 1 .. Len(rx_fifo)
            /\ DOMAIN Append(rx_fifo, packet) = 1 .. Len(rx_fifo) + 1
        BY <3>1, <3>2, LenProperties
      <3> QED BY <2>2, <3>2, <3>3 DEF NothingWaits
    <2>3. chip["gcrc"] = FALSE /\ NothingWaits(rx_fifo) => NothingWaits(rx_fifo')
      BY <1>2, <2>2 DEF PacketArrives, HardResetArrives, TxDone, TxEnds, Plug
    <2>4. EnableLast(todo, chip, rx_fifo')
      <3> SUFFICES ASSUME NEW i \in 1 .. Len(todo), Gives(todo[i], "gcrc", TRUE)
                   PROVE  /\ todo[i].do = "write" /\ i = Len(todo)
                          /\ chip["gcrc"] = FALSE /\ chip["txcc"] \in Chosen
                          /\ \A j \in 1 .. i - 1 : "txcc" \notin DOMAIN Written(todo[j])
                          /\ NothingWaits(rx_fifo') \/ Before(todo, i, "flush_rx")
        BY DEF EnableLast
      <3>1. EnableLast(todo, chip, rx_fifo) BY DEF OrderInv
      <3>2. /\ todo[i].do = "write" /\ i = Len(todo)
            /\ chip["gcrc"] = FALSE /\ chip["txcc"] \in Chosen
            /\ \A j \in 1 .. i - 1 : "txcc" \notin DOMAIN Written(todo[j])
            /\ NothingWaits(rx_fifo) \/ Before(todo, i, "flush_rx")
        BY <3>1, Zenon DEF EnableLast
      <3> QED BY <3>2, <2>3
    <2> QED BY <2>1, <2>4 DEF OrderInv
  <1> QED BY <1>1, <1>2

ChipInv == TypeInv /\ RegisterInv /\ OrderInv

LEMMA ChipInvariant ==
    ASSUME ReadsFail = FALSE
    PROVE  Spec => []ChipInv
  <1>1. TypeInv /\ RegisterInv /\ OrderInv /\ [Next]_vars => OrderInv'
    <2> SUFFICES ASSUME TypeInv, RegisterInv, OrderInv, [Next]_vars PROVE OrderInv' OBVIOUS
    <2>1. CASE Bus BY <2>1, BusOrder
    <2>2. CASE Protocol BY <2>2, ProtocolOrder
    <2>3. CASE Reboot \/ PacketArrives \/ HardResetArrives \/ TxDone \/ Plug
      BY <2>3, EnvironmentOrder
    <2>4. CASE UNCHANGED vars BY <2>4 DEF vars, OrderInv
    <2> QED BY <2>1, <2>2, <2>3, <2>4 DEF Next
  <1>2. TypeInv /\ RegisterInv /\ OrderInv => ChipInv BY DEF ChipInv
  <1> QED BY <1>1, <1>2, OrderInit, RegisterInvariant, PTL DEF Spec

----------------------------------------------------------------------------
(***************************************************************************)
(* The driver implements the transceiver of module Transceiver: every      *)
(* access is one of its operations or changes nothing it speaks of.        *)
(***************************************************************************)

Acked(fifo) == {i \in DOMAIN fifo : fifo[i] = "acked"}

LEMMA AckedFinite ==
    ASSUME NEW fifo \in Seq(Packets)
    PROVE  IsFiniteSet(Acked(fifo)) /\ Cardinality(Acked(fifo)) \in Nat
  <1>1. Len(fifo) \in Nat /\ DOMAIN fifo = 1 .. Len(fifo) BY LenProperties
  <1>2. IsFiniteSet(1 .. Len(fifo)) BY <1>1, FS_Interval
  <1>3. Acked(fifo) \in SUBSET (1 .. Len(fifo)) BY <1>1 DEF Acked
  <1>4. IsFiniteSet(Acked(fifo)) BY <1>2, <1>3, FS_Subset
  <1> QED BY <1>4, FS_CardinalityType

LEMMA NothingAcked ==
    ASSUME NEW fifo, NothingWaits(fifo)
    PROVE  Cardinality(Acked(fifo)) = 0
  <1>1. Acked(fifo) = {} BY DEF Acked, NothingWaits
  <1> QED BY <1>1, FS_EmptySet

LEMMA AckedAppend ==
    ASSUME NEW fifo \in Seq(Packets), NEW packet \in Packets
    PROVE  Cardinality(Acked(Append(fifo, packet))) =
              Cardinality(Acked(fifo)) + (IF packet = "acked" THEN 1 ELSE 0)
  <1> DEFINE more == Append(fifo, packet)
             n == Len(fifo) + 1
  <1>1. /\ Len(fifo) \in Nat /\ DOMAIN fifo = 1 .. Len(fifo) /\ DOMAIN more = 1 .. n
        /\ \A i \in 1 .. Len(fifo) : more[i] = fifo[i]
        /\ more[n] = packet
    <2>1. /\ more \in Seq(Packets) /\ Len(more) = n
          /\ \A i \in 1 .. Len(fifo) : more[i] = fifo[i]
          /\ more[n] = packet
      BY AppendProperties
    <2>2. Len(fifo) \in Nat /\ DOMAIN fifo = 1 .. Len(fifo) BY LenProperties
    <2>3. DOMAIN more = 1 .. n BY <2>1, LenProperties
    <2> QED BY <2>1, <2>2, <2>3
  <1> HIDE DEF more
  <1>2. n \notin Acked(fifo) /\ n \in 1 .. n BY <1>1 DEF Acked
  <1>3. CASE packet = "acked"
    <2>1. Acked(more) = Acked(fifo) \cup {n}
      <3>1. \A i \in 1 .. n : i = n \/ i \in 1 .. Len(fifo) BY <1>1
      <3>2. 1 .. Len(fifo) \subseteq 1 .. n BY <1>1
      <3> HIDE DEF n
      <3> QED BY <1>1, <1>2, <1>3, <3>1, <3>2 DEF Acked
    <2> QED BY <1>2, <1>3, <2>1, AckedFinite, FS_AddElement DEF more
  <1>4. CASE packet # "acked"
    <2>1. Acked(more) = Acked(fifo)
      <3>1. \A i \in 1 .. n : i = n \/ i \in 1 .. Len(fifo) BY <1>1
      <3>2. 1 .. Len(fifo) \subseteq 1 .. n BY <1>1
      <3> HIDE DEF n
      <3> QED BY <1>1, <1>4, <3>1, <3>2 DEF Acked
    <2> QED BY <1>4, <2>1, AckedFinite DEF more
  <1> QED BY <1>3, <1>4

LEMMA AckedTail ==
    ASSUME NEW fifo \in Seq(Packets), fifo # << >>
    PROVE  /\ fifo[1] = "acked" => /\ Cardinality(Acked(fifo)) > 0
                                   /\ Cardinality(Acked(Tail(fifo))) = Cardinality(Acked(fifo)) - 1
           /\ fifo[1] # "acked" => Cardinality(Acked(Tail(fifo))) = Cardinality(Acked(fifo))
  <1> DEFINE rest == Tail(fifo)
  <1>1. /\ rest \in Seq(Packets) /\ Len(rest) = Len(fifo) - 1
        /\ \A i \in 1 .. Len(rest) : rest[i] = fifo[i + 1]
    BY HeadTailProperties
  <1>2. Len(fifo) \in Nat /\ Len(fifo) > 0 BY EmptySeq
  <1> HIDE DEF rest
  <1>3. DOMAIN fifo = 1 .. Len(fifo) /\ DOMAIN rest = 1 .. Len(rest) BY <1>1, LenProperties
  <1> DEFINE A == Acked(fifo) \ {1}
             next == [i \in Acked(rest) |-> i + 1]
  <1>4. next \in Bijection(Acked(rest), A)
    <2>1. next \in [Acked(rest) -> A] BY <1>1, <1>2, <1>3 DEF Acked
    <2>2. \A i, j \in Acked(rest) : next[i] = next[j] => i = j BY <1>3 DEF Acked
    <2>3. \A k \in A : \E i \in Acked(rest) : next[i] = k
      <3> TAKE k \in A
      <3>1. k - 1 \in 1 .. Len(rest) /\ (k - 1) + 1 = k /\ fifo[k] = "acked"
        BY <1>1, <1>2, <1>3 DEF Acked
      <3>2. k - 1 \in Acked(rest) BY <3>1, <1>1, <1>3 DEF Acked
      <3> QED BY <3>1, <3>2
    <2> HIDE DEF A, next
    <2> QED BY <2>1, <2>2, <2>3, Fun_IsBij
  <1>5. IsFiniteSet(Acked(rest)) BY <1>1, AckedFinite
  <1>6. Cardinality(A) = Cardinality(Acked(rest))
    <2>1. ExistsBijection(Acked(rest), A) BY <1>4 DEF ExistsBijection
    <2> QED BY <2>1, <1>5, FS_Bijection
  <1>7. /\ IsFiniteSet(Acked(fifo)) /\ Cardinality(Acked(fifo)) \in Nat
        /\ Cardinality(Acked(rest)) \in Nat
    BY <1>1, AckedFinite
  <1>8. Cardinality(A) = IF 1 \in Acked(fifo) THEN Cardinality(Acked(fifo)) - 1
                                              ELSE Cardinality(Acked(fifo))
    BY <1>7, FS_RemoveElement
  <1>9. 1 \in Acked(fifo) <=> fifo[1] = "acked" BY <1>2, <1>3 DEF Acked
  <1> HIDE DEF A
  <1> QED BY <1>6, <1>7, <1>8, <1>9 DEF rest

LEMMA WaitingIs == Waiting = Cardinality(Acked(rx_fifo))
  BY DEF Waiting, Acked

\* The registers module Transceiver speaks of.
LinkFields == {"pu", "pd", "txcc", "gcrc", "header"}

LEMMA SameRegisters ==
    ASSUME \A f \in LinkFields : chip'[f] = chip[f]
    PROVE  UNCHANGED <<Pull, ChosenLine, chip.gcrc, chip.header>>
  <1>1. /\ chip'.pu = chip.pu /\ chip'.pd = chip.pd /\ chip'.txcc = chip.txcc
        /\ chip'.gcrc = chip.gcrc /\ chip'.header = chip.header
    BY DEF LinkFields
  <1>2. Pull' = Pull BY <1>1 DEF Pull
  <1>3. ChosenLine' = ChosenLine BY <1>1 DEF ChosenLine
  <1> QED BY <1>1, <1>2, <1>3

LEMMA SameSignals ==
    ASSUME (ints \cup seen)' \cap Signals = (ints \cup seen) \cap Signals
    PROVE  UNCHANGED Signaled
  BY DEF Signaled, Signals

LEMMA LineOf ==
    ASSUME NEW pin \in Pins, chip'.txcc = {pin}
    PROVE  ChosenLine' \in {1, 2}
  BY DEF ChosenLine, Pins

LEMMA LineChosen ==
    ASSUME chip.txcc \in Chosen
    PROVE  ChosenLine # 0
  BY DEF ChosenLine, Chosen, Pins

LEMMA LinkInit == Init => Link!Init
  <1> SUFFICES ASSUME Init PROVE Link!Init OBVIOUS
  <1>1. /\ chip.pu = {} /\ chip.pd = Pins /\ chip.txcc = {} /\ chip.gcrc = FALSE
        /\ chip.header = <<0, 0>>
    BY DEF Init, ResetRegisters, ZeroedMemory
  <1>2. Pull = "RD" /\ ChosenLine = 0 BY <1>1 DEF Pull, ChosenLine, Pins
  <1>3. Waiting = 0
    <2>1. NothingWaits(rx_fifo) BY DEF Init, NothingWaits
    <2> QED BY <2>1, WaitingIs, NothingAcked
  <1>4. ~Signaled BY DEF Init, Signaled
  <1> QED BY <1>1, <1>2, <1>3, <1>4 DEF Link!Init, Link!Quiet

\* A write sets one register: pulls, Tx pin, AUTO_GCRC or header.
LEMMA WriteLink ==
    ASSUME ReadsFail = FALSE, ChipInv, DoWrite
    PROVE  [Link!Next]_(Link!vars)
  <1>1. Program(todo) BY DEF ChipInv, TypeInv, Handles
  <1>2. todo # << >> /\ Head(todo).do = "write" BY DEF DoWrite, Do
  <1>3. /\ Head(todo) = todo[1] /\ todo[1].do = "write" /\ WellFormed(todo[1])
        /\ Len(todo) \in Nat /\ Len(todo) > 0 /\ 1 \in 1 .. Len(todo)
    BY <1>1, <1>2, ProgramTail
  <1> DEFINE w == todo[1].arg
  <1>4. Written(todo[1]) = w BY <1>3 DEF Written
  <1>5. \A f \in ChipFields : chip'[f] = IF f \in DOMAIN w THEN w[f] ELSE chip[f]
    <2>1. Bus BY DEF Bus
    <2>2. DOMAIN chip = ChipFields BY DEF ChipInv, RegisterInv
    <2> QED BY <1>1, <1>4, <2>1, <2>2, AccessEffect
  <1>6. LinkFields \subseteq ChipFields BY DEF LinkFields, ChipFields, ResetRegisters
  <1>7. rx_fifo' = rx_fifo /\ ints' = ints /\ seen' = seen BY DEF DoWrite
  <1>8. Waiting' = Waiting /\ Signaled' = Signaled BY <1>7 DEF Waiting, Signaled
  <1>9. OneRegister(w) BY <1>3 DEF WellFormed
  <1>10. EnableLast(todo, chip, rx_fifo) /\ ChooseDeaf(todo, chip) BY DEF ChipInv, OrderInv
  <1>11. \A what : ~Before(todo, 1, what) BY DEF Before
  <1> HIDE DEF w
  <1>12. CASE {"gcrc", "txcc", "header"} \cap DOMAIN w = {}
    <2>1. chip'.gcrc = chip.gcrc /\ chip'.txcc = chip.txcc /\ chip'.header = chip.header
      BY <1>5, <1>6, <1>12 DEF LinkFields
    <2>2. ChosenLine' = ChosenLine BY <2>1 DEF ChosenLine
    <2>3. Pull' \in {"RP", "RD", "OPEN"} BY DEF Pull
    <2> QED BY <1>8, <2>1, <2>2, <2>3 DEF Link!Next, Link!SetPull
  <1>13. CASE {"pu", "pd", "gcrc", "header"} \cap DOMAIN w = {}
    <2>1. /\ chip'.gcrc = chip.gcrc /\ chip'.pu = chip.pu /\ chip'.pd = chip.pd
          /\ chip'.header = chip.header
      BY <1>5, <1>6, <1>13 DEF LinkFields
    <2>2. Pull' = Pull BY <2>1 DEF Pull
    <2>3. CASE "txcc" \in DOMAIN w
      <3>1. chip["gcrc"] = FALSE BY <1>3, <1>4, <1>10, <1>11, <2>3 DEF ChooseDeaf
      <3>2. chip'["txcc"] = w["txcc"] BY <1>5, <1>6, <2>3 DEF LinkFields
      <3>3. w["txcc"] \in Chosen BY <1>3, <2>3 DEF WellFormed, w
      <3>4. ChosenLine' \in {1, 2} BY <3>2, <3>3, LineOf DEF Chosen
      <3> QED BY <1>8, <2>1, <2>2, <3>1, <3>4 DEF Link!Next, Link!ChooseLine
    <2>4. CASE "txcc" \notin DOMAIN w
      <3>1. chip'.txcc = chip.txcc BY <1>5, <1>6, <2>4 DEF LinkFields
      <3>2. ChosenLine' = ChosenLine BY <3>1 DEF ChosenLine
      <3> QED BY <1>8, <2>1, <2>2, <3>2 DEF Link!vars
    <2> QED BY <2>3, <2>4
  <1>14. CASE {"pu", "pd", "txcc", "header"} \cap DOMAIN w = {}
    <2>1. /\ chip'.txcc = chip.txcc /\ chip'.pu = chip.pu /\ chip'.pd = chip.pd
          /\ chip'.header = chip.header
      BY <1>5, <1>6, <1>14 DEF LinkFields
    <2>2. Pull' = Pull /\ ChosenLine' = ChosenLine BY <2>1 DEF Pull, ChosenLine
    <2>3. CASE "gcrc" \notin DOMAIN w
      <3>1. chip'.gcrc = chip.gcrc BY <1>5, <1>6, <2>3 DEF LinkFields
      <3> QED BY <1>8, <2>1, <2>2, <3>1 DEF Link!vars
    <2>4. CASE "gcrc" \in DOMAIN w /\ w["gcrc"] = TRUE
      <3>1. chip'["gcrc"] = w["gcrc"] BY <1>5, <1>6, <2>4 DEF LinkFields
      <3>2. Gives(todo[1], "gcrc", TRUE) BY <1>4, <2>4 DEF Gives
      <3>3. /\ chip["gcrc"] = FALSE /\ chip["txcc"] \in Chosen
            /\ NothingWaits(rx_fifo) \/ Before(todo, 1, "flush_rx")
        BY <1>3, <1>10, <3>2, Zenon DEF EnableLast
      <3>4. Waiting = 0
        <4>1. NothingWaits(rx_fifo) BY <1>11, <3>3, Zenon
        <4> QED BY <4>1, WaitingIs, NothingAcked
      <3>5. ChosenLine # 0 BY <3>3, LineChosen
      <3>6. chip'.gcrc = TRUE /\ ~chip.gcrc BY <2>4, <3>1, <3>3
      <3> QED BY <1>8, <2>1, <2>2, <3>4, <3>5, <3>6 DEF Link!Next, Link!Enable
    <2>5. CASE "gcrc" \in DOMAIN w /\ w["gcrc"] = FALSE
      <3>1. chip'["gcrc"] = w["gcrc"] BY <1>5, <1>6, <2>5 DEF LinkFields
      <3>2. chip'.gcrc = FALSE BY <3>1, <2>5
      <3> QED BY <1>8, <2>1, <2>2, <3>2 DEF Link!Next, Link!Disable
    <2>6. "gcrc" \in DOMAIN w => w["gcrc"] = TRUE \/ w["gcrc"] = FALSE
      BY <1>3, <1>4, GcrcBoolean
    <2> QED BY <2>3, <2>4, <2>5, <2>6
  <1>15. CASE {"pu", "pd", "txcc", "gcrc"} \cap DOMAIN w = {}
    <2>1. /\ chip'.txcc = chip.txcc /\ chip'.pu = chip.pu /\ chip'.pd = chip.pd
          /\ chip'.gcrc = chip.gcrc
      BY <1>5, <1>6, <1>15 DEF LinkFields
    <2>2. Pull' = Pull /\ ChosenLine' = ChosenLine BY <2>1 DEF Pull, ChosenLine
    <2>3. CASE "header" \in DOMAIN w
      <3>1. chip'["header"] = w["header"] BY <1>5, <1>6, <2>3 DEF LinkFields
      <3>2. w["header"] \in {0, 1} \X {0, 1} BY <1>3, <2>3 DEF WellFormed, w
      <3>3. chip'.header \in {0, 1} \X {0, 1} BY <3>1, <3>2
      <3> QED BY <1>8, <2>1, <2>2, <3>3 DEF Link!Next, Link!SetHeader
    <2>4. CASE "header" \notin DOMAIN w
      <3>1. chip'.header = chip.header BY <1>5, <1>6, <2>4 DEF LinkFields
      <3> QED BY <1>8, <2>1, <2>2, <3>1 DEF Link!vars
    <2> QED BY <2>3, <2>4
  <1> QED BY <1>9, <1>12, <1>13, <1>14, <1>15 DEF OneRegister

LEMMA SwResetLink ==
    ASSUME ChipInv, DoSwReset
    PROVE  [Link!Next]_(Link!vars)
  <1>1. Program(todo) BY DEF ChipInv, TypeInv, Handles
  <1>2. todo # << >> /\ Head(todo).do = "sw_reset" BY DEF DoSwReset, Do
  <1>3. Head(todo) = todo[1] /\ WellFormed(todo[1]) BY <1>1, <1>2, ProgramTail
  <1>4. DOMAIN Head(todo).arg = {"cc_polarity", "mdac_vnc", "mdac_rd"} BY <1>2, <1>3 DEF WellFormed
  <1>5. DOMAIN chip = ChipFields /\ LinkFields \subseteq ChipFields
    BY DEF ChipInv, RegisterInv, LinkFields, ChipFields, ResetRegisters
  <1>6. \A f \in LinkFields : chip'[f] = ResetRegisters[f]
    <2>1. chip' = Assign(Head(todo).arg, Assign(ResetRegisters, chip)) BY DEF DoSwReset
    <2>2. \A f \in LinkFields : f \notin DOMAIN Head(todo).arg BY <1>4 DEF LinkFields
    <2>3. LinkFields \subseteq DOMAIN ResetRegisters BY DEF LinkFields, ResetRegisters
    <2> QED BY <1>5, <2>1, <2>2, <2>3 DEF Assign
  <1>7. /\ chip'.pu = {} /\ chip'.pd = Pins /\ chip'.txcc = {} /\ chip'.gcrc = FALSE
        /\ chip'.header = <<0, 0>>
    BY <1>6 DEF LinkFields, ResetRegisters
  <1>8. Pull' = "RD" /\ ChosenLine' = 0 BY <1>7 DEF Pull, ChosenLine, Pins
  <1>9. Waiting' \in {0, Waiting}
    <2>1. CASE rx_fifo' = rx_fifo BY <2>1 DEF Waiting
    <2>2. CASE rx_fifo' = << >>
      <3>1. NothingWaits(rx_fifo') BY <2>2 DEF NothingWaits
      <3>2. Cardinality(Acked(rx_fifo')) = 0 BY <3>1, NothingAcked
      <3>3. Waiting' = Cardinality(Acked(rx_fifo')) BY DEF Waiting, Acked
      <3> QED BY <3>2, <3>3
    <2> QED BY <2>1, <2>2 DEF DoSwReset
  <1>10. Signaled' \in {Signaled, FALSE} BY DEF DoSwReset, Signaled
  <1> QED BY <1>7, <1>8, <1>9, <1>10 DEF Link!Next, Link!Restart

\* Messages are thrown away while nothing is acknowledged or after Hard Reset signaling.
LEMMA LinkDomain ==
    ASSUME RegisterInv
    PROVE  \A f \in LinkFields : f \in DOMAIN chip
  BY DEF RegisterInv, LinkFields, ChipFields, ResetRegisters

LEMMA DropLink ==
    ASSUME ChipInv, DoPdReset \/ DoFlushRx
    PROVE  [Link!Next]_(Link!vars)
  <1>1. Program(todo) BY DEF ChipInv, TypeInv, Handles
  <1>2. todo # << >> /\ Head(todo).do \in {"pd_reset", "flush_rx"} BY DEF DoPdReset, DoFlushRx, Do
  <1>3. Head(todo) = todo[1] /\ WellFormed(todo[1]) /\ 1 \in 1 .. Len(todo)
    BY <1>1, <1>2, ProgramTail
  <1>4. UNCHANGED <<Pull, ChosenLine, chip.gcrc, chip.header>>
    <2>1. \A f \in LinkFields : f # "bist2" BY DEF LinkFields
    <2>2. CASE DoPdReset BY <2>2 DEF DoPdReset, Pull, ChosenLine
    <2>3. CASE DoFlushRx
      <3>1. chip' = [chip EXCEPT !["bist2"] = FALSE] BY <2>3 DEF DoFlushRx
      <3>2. \A f \in LinkFields : chip'[f] = chip[f] BY <2>1, <3>1, LinkDomain DEF ChipInv
      <3> QED BY <3>2, SameRegisters
    <2> QED BY <2>2, <2>3
  <1>5. Waiting' = 0
    <2>1. rx_fifo' = << >> BY DEF DoPdReset, DoFlushRx
    <2>2. NothingWaits(rx_fifo') BY <2>1 DEF NothingWaits
    <2>3. Cardinality(Acked(rx_fifo')) = 0 BY <2>2, NothingAcked
    <2>4. Waiting' = Cardinality(Acked(rx_fifo')) BY DEF Waiting, Acked
    <2> QED BY <2>3, <2>4
  <1>6. CASE DoPdReset
    <2>1. todo[1].do = "pd_reset" BY <1>3, <1>6 DEF DoPdReset, Do
    <2>2. todo[1].arg \in seen \cap Signals
      BY <1>3, <2>1 DEF ChipInv, OrderInv, ResetOnce, WellFormed
    <2>3. Signaled BY <2>2 DEF Signaled, Signals
    <2>4. Signaled' \in {Signaled, FALSE} BY <2>3 DEF Signaled
    <2> QED BY <1>4, <1>5, <2>3, <2>4 DEF Link!Next, Link!Drop
  <1>7. CASE DoFlushRx
    <2>1. todo[1].do = "flush_rx" BY <1>3, <1>7 DEF DoFlushRx, Do
    <2>2. chip["gcrc"] = FALSE BY <1>3, <2>1 DEF ChipInv, OrderInv, FlushDeaf
    <2>3. Signaled' = Signaled BY <1>7 DEF DoFlushRx, Signaled
    <2> QED BY <1>4, <1>5, <2>2, <2>3 DEF Link!Next, Link!Drop
  <1> QED BY <1>6, <1>7

LEMMA TakeLink ==
    ASSUME ReadsFail = FALSE, ChipInv, DoTake
    PROVE  [Link!Next]_(Link!vars)
  <1>1. rx_fifo \in Seq(Packets) BY DEF ChipInv, TypeInv
  <1>2. UNCHANGED <<Pull, ChosenLine, chip.gcrc, chip.header, Signaled>>
    BY DEF DoTake, Pull, ChosenLine, Signaled
  <1>3. CASE rx_fifo = << >>
    <2>1. rx_fifo' = rx_fifo BY <1>3 DEF DoTake
    <2>2. Waiting' = Waiting BY <2>1 DEF Waiting
    <2> QED BY <1>2, <2>2 DEF Link!vars
  <1>4. CASE rx_fifo # << >>
    <2>1. rx_fifo' = Tail(rx_fifo) BY <1>4 DEF DoTake
    <2>2. Waiting' = Cardinality(Acked(Tail(rx_fifo))) BY <2>1 DEF Waiting, Acked
    <2>3. CASE rx_fifo[1] = "acked"
      <3>1. Waiting > 0 /\ Waiting' = Waiting - 1 BY <1>1, <1>4, <2>2, <2>3, WaitingIs, AckedTail
      <3> QED BY <1>2, <3>1 DEF Link!Next, Link!Take
    <2>4. CASE rx_fifo[1] # "acked"
      <3>1. Waiting' = Waiting BY <1>1, <1>4, <2>2, <2>4, WaitingIs, AckedTail
      <3> QED BY <1>2, <3>1 DEF Link!vars
    <2> QED BY <2>3, <2>4
  <1> QED BY <1>3, <1>4

\* Every other access changes nothing module Transceiver speaks of, but for the pulls.
LEMMA AccessLink ==
    ASSUME ReadsFail = FALSE, ChipInv,
           DoWriteBack \/ DoFlushTx \/ DoSend \/ DoComp \/ DoCompRd \/ DoBcLvl \/ DoRead \/ DoHandle
    PROVE  [Link!Next]_(Link!vars)
  <1>1. rx_fifo' = rx_fifo
    BY DEF DoWriteBack, DoFlushTx, DoSend, DoComp, DoCompRd, DoBcLvl, DoRead, DoHandle
  <1>2. Waiting' = Waiting BY <1>1 DEF Waiting
  <1>3. Signaled' = Signaled
    <2>1. CASE DoRead
      <3>1. Lost = {FALSE} BY DEF Lost
      <3>2. (ints \cup seen)' = ints \cup seen BY <2>1, <3>1 DEF DoRead
      <3> QED BY <3>2, SameSignals
    <2>2. CASE DoHandle
      <3>1. ints' = ints /\ seen' = seen \cap Signals BY <2>2 DEF DoHandle, Signals
      <3>2. (ints \cup seen)' \cap Signals = (ints \cup seen) \cap Signals BY <3>1
      <3> QED BY <3>2, SameSignals
    <2>3. CASE ints' = ints /\ seen' = seen BY <2>3 DEF Signaled
    <2> QED BY <2>1, <2>2, <2>3 DEF DoWriteBack, DoFlushTx, DoSend, DoComp, DoCompRd, DoBcLvl
  <1>4. CASE DoWriteBack
    <2>1. Program(todo) BY DEF ChipInv, TypeInv, Handles
    <2>2. todo # << >> /\ Head(todo).do = "write_back" BY <1>4 DEF DoWriteBack, Do
    <2>3. WellFormed(Head(todo)) BY <2>1, <2>2, ProgramTail
    <2>4. {"gcrc", "txcc", "header"} \cap DOMAIN Head(todo).arg = {} BY <2>2, <2>3 DEF WellFormed
    <2>5. DOMAIN chip = ChipFields /\ LinkFields \subseteq ChipFields
      BY DEF ChipInv, RegisterInv, LinkFields, ChipFields, ResetRegisters
    <2>6. \A f \in {"gcrc", "txcc", "header"} : chip'[f] = chip[f]
      BY <1>4, <2>4, <2>5 DEF DoWriteBack, Assign, LinkFields
    <2>7. chip'.gcrc = chip.gcrc /\ chip'.txcc = chip.txcc /\ chip'.header = chip.header BY <2>6
    <2>8. ChosenLine' = ChosenLine BY <2>7 DEF ChosenLine
    <2>9. Pull' \in {"RP", "RD", "OPEN"} BY DEF Pull
    <2> QED BY <1>2, <1>3, <2>7, <2>8, <2>9 DEF Link!Next, Link!SetPull
  <1>5. CASE DoFlushTx \/ DoSend \/ DoComp \/ DoCompRd \/ DoBcLvl \/ DoRead \/ DoHandle
    <2>1. \A fields : tcpc_read(fields) = {chip} BY DEF tcpc_read
    <2>2. chip' = chip
      BY <1>5, <2>1 DEF DoFlushTx, DoSend, DoComp, DoCompRd, DoBcLvl, DoRead, DoHandle
    <2>3. UNCHANGED <<Pull, ChosenLine, chip.gcrc, chip.header>> BY <2>2 DEF Pull, ChosenLine
    <2> QED BY <1>2, <1>3, <2>3 DEF Link!vars
  <1> QED BY <1>4, <1>5

\* A call starts without a register access.
LEMMA ProtocolLink ==
    ASSUME ChipInv, Protocol
    PROVE  UNCHANGED Link!vars
  <1>1. /\ rx_fifo' = rx_fifo /\ ints' = ints /\ seen' = seen
        /\ chip' = chip \/ \E enable : chip' = [chip EXCEPT !.rx_enable = enable]
    BY DEF Protocol, GetCc, SetPolarity, SetRxEnable, Others, Call
  <1>2. \A f \in LinkFields : chip'[f] = chip[f]
    <2>1. \A f \in LinkFields : f # "rx_enable" BY DEF LinkFields
    <2>2. CASE chip' = chip BY <2>2
    <2>3. CASE \E enable : chip' = [chip EXCEPT !.rx_enable = enable]
      <3>1. PICK enable : chip' = [chip EXCEPT !.rx_enable = enable] BY <2>3
      <3>2. chip' = [chip EXCEPT !["rx_enable"] = enable] BY <3>1
      <3> QED BY <2>1, <3>2, LinkDomain DEF ChipInv
    <2> QED BY <1>1, <2>2, <2>3
  <1>3. Waiting' = Waiting /\ Signaled' = Signaled BY <1>1 DEF Waiting, Signaled
  <1> QED BY <1>2, <1>3, SameRegisters DEF Link!vars

LEMMA EnvironmentLink ==
    ASSUME ChipInv, Reboot \/ PacketArrives \/ HardResetArrives \/ TxDone \/ Plug
    PROVE  [Link!Next]_(Link!vars)
  <1>1. rx_fifo \in Seq(Packets) BY DEF ChipInv, TypeInv
  <1>2. UNCHANGED <<Pull, ChosenLine, chip.gcrc, chip.header>>
    <2>1. CASE Reboot
      <3>1. DOMAIN chip = ChipFields /\ LinkFields \subseteq ChipFields
        BY DEF ChipInv, RegisterInv, LinkFields, ChipFields, ResetRegisters
      <3>2. \A f \in LinkFields : f \notin DOMAIN ZeroedMemory BY DEF LinkFields, ZeroedMemory
      <3>3. \A f \in LinkFields : chip'[f] = chip[f] BY <2>1, <3>1, <3>2 DEF Reboot, Assign
      <3> QED BY <3>3, SameRegisters
    <2>2. CASE chip' = chip BY <2>2 DEF Pull, ChosenLine
    <2> QED BY <2>1, <2>2 DEF PacketArrives, HardResetArrives, TxDone, TxEnds, Plug
  <1>3. Signaled' \in BOOLEAN BY DEF Signaled
  <1>4. Waiting' = Cardinality(Acked(rx_fifo')) BY DEF Waiting, Acked
  <1>5. CASE PacketArrives
    <2>1. Signaled' = Signaled
      <3>1. (ints \cup seen)' \cap Signals = (ints \cup seen) \cap Signals
        BY <1>5 DEF PacketArrives, Signals
      <3> QED BY <3>1, SameSignals
    <2>2. CASE chip.gcrc
      <3>1. rx_fifo' = Append(rx_fifo, "acked") /\ "acked" \in Packets
        BY <1>5, <2>2 DEF PacketArrives, Packets
      <3>2. Waiting' = Waiting + 1 BY <1>1, <1>4, <3>1, WaitingIs, AckedAppend
      <3> QED BY <1>2, <2>1, <2>2, <3>2 DEF Link!Next, Link!Hear
    <2>3. CASE ~chip.gcrc
      <3>1. rx_fifo' = Append(rx_fifo, "unacked") /\ "unacked" \in Packets
        BY <1>5, <2>3 DEF PacketArrives, Packets
      <3>2. Waiting' = Waiting
        <4>1. Cardinality(Acked(Append(rx_fifo, "unacked"))) = Cardinality(Acked(rx_fifo)) + 0
          BY <1>1, <3>1, AckedAppend
        <4>2. Cardinality(Acked(rx_fifo)) \in Nat BY <1>1, AckedFinite
        <4> QED BY <1>4, <3>1, <4>1, <4>2, WaitingIs
      <3> QED BY <1>2, <2>1, <3>2 DEF Link!vars
    <2> QED BY <2>2, <2>3
  <1>6. CASE Reboot \/ HardResetArrives \/ TxDone \/ Plug
    <2>1. Waiting' = Waiting
      <3>1. CASE rx_fifo' = rx_fifo BY <3>1 DEF Waiting
      <3>2. CASE rx_fifo' = Append(rx_fifo, "good_crc")
        <4>1. "good_crc" \in Packets BY DEF Packets
        <4>2. Cardinality(Acked(Append(rx_fifo, "good_crc"))) = Cardinality(Acked(rx_fifo)) + 0
          BY <1>1, <4>1, AckedAppend
        <4>3. Cardinality(Acked(rx_fifo)) \in Nat BY <1>1, AckedFinite
        <4> QED BY <1>4, <3>2, <4>2, <4>3, WaitingIs
      <3> QED BY <1>6, <3>1, <3>2 DEF Reboot, HardResetArrives, TxDone, TxEnds, Plug
    <2> QED BY <1>2, <1>3, <2>1 DEF Link!Next, Link!Signal
  <1> QED BY <1>5, <1>6

\* Below the calls, the driver and the chip are the transceiver the protocol layer
\* relies on: an acknowledged message waits until it is taken, and is thrown away only
\* while the receiver is off or after Hard Reset signaling; the receiver is switched on
\* with nothing waiting, on a chosen pin, and stays on it (FUSB302.cpp, all calls).
THEOREM TransceiverImplemented ==
    ASSUME ReadsFail = FALSE
    PROVE  Spec => ImplementsTransceiver
  <1>1. ChipInv /\ [Next]_vars => [Link!Next]_(Link!vars)
    <2> SUFFICES ASSUME ChipInv, [Next]_vars PROVE [Link!Next]_(Link!vars) OBVIOUS
    <2>1. CASE Bus
      BY <2>1, WriteLink, SwResetLink, DropLink, TakeLink, AccessLink DEF Bus
    <2>2. CASE Protocol BY <2>2, ProtocolLink
    <2>3. CASE Reboot \/ PacketArrives \/ HardResetArrives \/ TxDone \/ Plug
      BY <2>3, EnvironmentLink
    <2>4. CASE UNCHANGED vars
      BY <2>4 DEF vars, Link!vars, Pull, ChosenLine, Waiting, Signaled
    <2> QED BY <2>1, <2>2, <2>3, <2>4 DEF Next
  <1> QED BY <1>1, ChipInvariant, LinkInit, PTL DEF Spec, ImplementsTransceiver, Link!Spec
=============================================================================
