------------------------------ MODULE Catalog -------------------------------
(***************************************************************************)
(* What start-up fills an empty database with: initialization/constants.   *)
(* The texts of credentials stand for themselves by the entry's name;      *)
(* labels and descriptions are left out.                                   *)
(***************************************************************************)
EXTENDS Integers, Sequences, FiniteSets

GLOBAL_CONFIG == {"admin_soft_url"}

BANK_LIST == <<
    <<"0102", "BANCO DE VENEZUELA">>, <<"0104", "BANCO VENEZOLANO DE CREDITO">>,
    <<"0105", "BANCO MERCANTIL">>,    <<"0108", "BANCO PROVINCIAL">>,
    <<"0114", "BANCO DEL CARIBE">>,   <<"0115", "BANCO EXTERIOR">>,
    <<"0128", "BANCO CARONI">>,       <<"0134", "BANESCO">>,
    <<"0137", "BANCO SOFITASA">>,     <<"0138", "BANCO PLAZA">>,
    <<"0146", "BANGENTE">>,           <<"0149", "BANCO DEL PUEBLO">>,
    <<"0151", "BANCO FONDO COMUN">>,  <<"0156", "100% BANCO">>,
    <<"0157", "BANCO DEL SUR">>,      <<"0163", "BANCO DEL TESORO">>,
    <<"0166", "BANCO AGRICOLA">>,     <<"0168", "BANCRECER">>,
    <<"0169", "MI BANCO">>,           <<"0171", "BANCO ACTIVO">>,
    <<"0172", "BANCAMIGA">>,          <<"0173", "BANCO INTERNACIONAL DE DESARROLLO">>,
    <<"0174", "BANPLUS">>,            <<"0175", "BANCO BICENTENARIO">>,
    <<"0177", "BANFANB">>,            <<"0178", "N58 BANCO DIGITAL">>,
    <<"0191", "BANCO NACIONAL DE CREDITO">>, <<"BNB", "BINANCE">> >>

(* A product: its one configuration (commission in tenths of a per cent)   *)
(* and the keys of its properties.                                         *)
Product(bank, name, currency, rate, properties) ==
    [bank |-> bank, name |-> name, currency |-> currency, rate |-> rate,
     properties |-> properties]

BinanceProducts == {Product("BNB", "VERIFICATION_API", "USD", 1, {}),
                    Product("BNB", "PAY_BUTTON", "USD", 1, {})}
BanescoProducts == {Product("0134", "PAY_BUTTON", "VES", 35, {}),
                    Product("0134", "VERIFICATION_API", "VES", 25, {})}
BancaribeProducts == {Product("0114", "C2P", "VES", 22, {}),
                      Product("0114", "PAY_BUTTON", "VES", 20, {})}
BancoPlazaProducts == {Product("0138", "C2P", "VES", 0,
                               {"telefonoCobrador", "motivo", "origen"})}

(* Object.entries of BANK_PRODUCTS_BY_BANK: integer-like keys first, but   *)
(* none of these is one ("0114" has a leading zero), so as written.        *)
BANK_PRODUCTS_BY_BANK ==
    <<BinanceProducts, BanescoProducts, BancaribeProducts, BancoPlazaProducts>>

BANK_PRODUCTS == UNION {BANK_PRODUCTS_BY_BANK[b] : b \in DOMAIN BANK_PRODUCTS_BY_BANK}

(* operation_cost in cents of a USD.                                       *)
Tier(min, max, cost) == [min_transactions |-> min, max_transactions |-> max,
                         operation_cost |-> cost]

COMMISSION_TIERS == {Tier(0, 2500, 50), Tier(2501, 5000, 45), Tier(5001, 7500, 41),
                     Tier(7501, 10000, 36), Tier(10001, 999999999, 32)}

(* The last three wait for an address and a key.                           *)
NETWORK_MANAGERS == [MIKROWISP |-> TRUE, WISPHUB |-> TRUE,
                     ISP_CUBE |-> FALSE, NEOGISP |-> FALSE, HYDRA |-> FALSE]

-----------------------------------------------------------------------------

(* The tiers leave no number of transactions out, cover none twice, and    *)
(* the more a client transacts the less an operation costs; every product  *)
(* belongs to a bank of the list, because the insert connects to it by     *)
(* code, and no bank lists a product twice.                                *)
ASSUME CatalogAssumption ==
    /\ \A n \in {0, 2500, 2501, 5000, 5001, 7500, 7501, 10000, 10001, 999999999} :
          Cardinality({t \in COMMISSION_TIERS :
                          n \in t.min_transactions..t.max_transactions}) = 1
    /\ \A s, t \in COMMISSION_TIERS :
          s.max_transactions < t.min_transactions => t.operation_cost < s.operation_cost
    /\ \A p \in BANK_PRODUCTS : \E b \in DOMAIN BANK_LIST : BANK_LIST[b][1] = p.bank
    /\ \A p, q \in BANK_PRODUCTS : p.bank = q.bank /\ p.name = q.name => p = q
=============================================================================
