--------------------------- MODULE MCBootCapture ---------------------------
(* Bus cycles that the detector must tell apart, each with what it shows.   *)
EXTENDS BootCapture

Cycle(type, addr, data, slot, shows) ==
    [type |-> type, addr |-> addr, data |-> data, slot |-> slot, shows |-> shows]

MCCycles == {
    Cycle("fetch",   \h0000, \hF3, FALSE, {RESET_VECTOR}),
    Cycle("refresh", \h0000, \hFF, FALSE, {}),
    Cycle("write",   \hFD9A, \h01, FALSE, {SLOT_RAM_PROBE, BASIC_COLDSTART}),
    Cycle("out",     \h00A8, \hF0, FALSE, {BIOS_ENTRY, SLOT_RAM_PROBE}),
    Cycle("in",      \h0099, \h80, FALSE, {}),
    Cycle("intack",  \h0098, \hFF, FALSE, {}),
    Cycle("read",    \h4000, \h41, TRUE,  {CART_SCAN}),
    Cycle("read",    \h4001, \h42, TRUE,  {CART_SCAN}),
    Cycle("read",    \h4000, \h55, FALSE, {CART_SCAN}),
    Cycle("read",    \h5000, \h00, TRUE,  {}) }
=============================================================================
