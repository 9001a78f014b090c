--------------------------- MODULE MCBackendMatrix ---------------------------
(***************************************************************************)
(* Instance of BackendMatrix for TLC: two profiles, loads of three requests *)
(* at one or two at a time, or of more at a time than there are requests.   *)
(***************************************************************************)
EXTENDS BackendMatrix

CONSTANTS p1, p2

MCProfiles == <<p1, p2>>
MCLevelChoices == {<<1, 2>>, <<2, 4>>}

MCCases == <<[expected |-> {"dog"}, forbidden |-> {"cat"}, json |-> NoJson],
             [expected |-> {}, forbidden |-> {}, json |-> {<<"event", "alarm">>}]>>
MCOutputs == {[phrases |-> {"dog"}, json |-> NoJson],
              [phrases |-> {}, json |-> {<<"event", "alarm">>, <<"risk", "low">>}]}
=============================================================================
