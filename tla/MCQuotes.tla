------------------------------ MODULE MCQuotes ------------------------------
(* A rate with a third decimal, taxes of both kinds, added and included,   *)
(* balances that cover nothing, a part and all of a price.                 *)
EXTENDS Quotes

CONSTANTS ra, rb

MCEarlierRows == {<<>>, <<ra, rb>>}

MCBcv(rate) == IF rate = ra THEN 1980 ELSE 2345

MCIspConfigs ==
    [igtf_rate : {3}, iva_rate : {16}, add_iva_ves : BOOLEAN, add_iva_usd : BOOLEAN,
     add_igtf : BOOLEAN, commission_type : {"CLIENT_ASSUMES", "ISP_ASSUMES"}]
=============================================================================
