------------------------------ MODULE PDPolicy -----------------------------
(***************************************************************************)
(* The power policy of the port: which of the partner's offers a sink      *)
(* requests (usb_pd_policy.cpp and the sketch's index), and which requests *)
(* a source accepts.  The board hooks of usb_pd_driver.cpp are here too.   *)
(***************************************************************************)
EXTENDS FUSB302

\* pd_src_pdo: the single offer of this board, 5 V at 1500 mA, as the current
\* field of the PDO in units of 10 mA.
pd_src_pdo == <<150>>
pd_src_pdo_cnt == Len(pd_src_pdo)

\* usb_pd_driver.cpp answers "VBUS is present" without looking.
pd_snk_is_vbus_provided(p) == TRUE

\* Board policy: never agree to a data or a power role swap the partner asks for.
pd_check_data_swap(p) == FALSE
pd_check_power_swap(p) == FALSE

pd_board_check_request(rdo) == rdo.pos \in 1 .. pd_src_pdo_cnt

pd_check_requested_voltage(rdo) ==
    /\ pd_board_check_request(rdo)
    /\ rdo.op_ma <= pd_src_pdo[rdo.pos]
    /\ rdo.max_ma <= pd_src_pdo[rdo.pos] \/ rdo.mismatch = 1

\* can only parse PDO flags if type is fixed
pd_update_pdo_flags(p, pdo0) ==
    IF pdo0.fixed = 1
    THEN [p EXCEPT !.flags = (@ \ PartnerFlags) \cup pdo0.flags]
    ELSE p

\* The array keeps what earlier, longer offers left beyond the new count.
pd_process_source_cap(p, mv) ==
    [p EXCEPT !.src_cap_cnt = Len(mv),
              !.src_caps = [i \in DOMAIN @ |-> IF i < Len(mv) THEN mv[i + 1] ELSE @[i]]]

\* The sketch's callback, called after the Request has been sent.
pd_process_source_cap_callback(p, mv) == [p EXCEPT !.cap_max = Len(mv) - 1]

\* pd_build_request: the voltage of the PDO at the sketch's index.
pd_build_request(p) == p.src_caps[p.cap_index]

\* Mutant: one step too far.
NextCapIndex_beyond(p) ==
    [p EXCEPT !.cap_index = IF @ <= p.cap_max THEN @ + 1 ELSE 0]

\* The push button: the next index, or back to the first.
NextCapIndex(p) ==
    [p EXCEPT !.cap_index = IF @ < p.cap_max THEN @ + 1 ELSE 0]
=============================================================================
