------------------------- MODULE PaymentCalculator --------------------------
(***************************************************************************)
(* PaymentCalculationService (currency-rates/services/): what a client has *)
(* to pay in the currency of a bank product, taxes and commission added,   *)
(* the client's balance taken off.  Amounts are cents, taxes percents, the *)
(* rate bolivares in thousandths.  What is not rounded yet is a numerator  *)
(* over the "den" it shares with the other parts; the last bits of binary  *)
(* floating point are left out.                                            *)
(***************************************************************************)
EXTENDS Naturals

(* Number((n / d).toFixed(2)), in cents.                                   *)
toFixed2(n, d) == (2 * n + d) \div (2 * d)

(* The price is the base, or it includes IGTF, IVA or both, which are      *)
(* broken out of it.                                                       *)
calculateUSDPayment(amount, isp) ==
    LET g == isp.igtf_rate
        v == isp.iva_rate
        Parts(base, igtf, iva, den) == [base |-> base, igtf |-> igtf, iva |-> iva, den |-> den]
    IN  IF ~isp.add_igtf /\ ~isp.add_iva_usd
        THEN Parts(amount * 100, amount * g, amount * v, 100 + g + v)
        ELSE IF ~isp.add_igtf
        THEN Parts(amount * 100, amount * g, amount * v, 100 + g)
        ELSE IF ~isp.add_iva_usd
        THEN Parts(amount * 10000, amount * g * (100 + v), amount * v * 100, (100 + v) * 100)
        ELSE Parts(amount * 100, amount * g, amount * v, 100)

(* No IGTF on bolivares.                                                   *)
calculateVESPayment(amount, isp, rate) ==
    [base |-> amount * rate * 100, igtf |-> 0, iva |-> amount * rate * isp.iva_rate,
     den |-> 1000 * (IF isp.add_iva_ves THEN 100 ELSE 100 + isp.iva_rate)]

(* An amount in dollars, over the den of a result in the currency.         *)
InCurrency(amount, currency, rate, den) ==
    IF currency = "USD" THEN amount * den ELSE amount * rate * (den \div 1000)

systemCommission == 50

(* 0.5 USD where the client assumes the commission.                        *)
applySystemCommission(isp, currency, rate, den) ==
    IF isp.commission_type = "CLIENT_ASSUMES"
    THEN InCurrency(systemCommission, currency, rate, den) ELSE 0

(* Mutant: what is left to pay is not rounded before the rest is derived.  *)
LeftUnrounded(final, available, den) ==
    IF available <= 0 THEN [n |-> final, d |-> den]
    ELSE IF available >= final THEN [n |-> 0, d |-> 1]
    ELSE [n |-> final - available, d |-> den]

(* What is left to pay: all, nothing, or the rest in whole cents.          *)
applyAvailableBalance(final, available, den) ==
    IF available <= 0 THEN [n |-> final, d |-> den]
    ELSE IF available >= final THEN [n |-> 0, d |-> 1]
    ELSE [n |-> toFixed2(final - available, den), d |-> 1]

(* calculatePayment, with every number rounded at the end.                 *)
calculatePayment(amountUSD, currency, isp, rate, balance) ==
    LET result == IF currency = "USD" THEN calculateUSDPayment(amountUSD, isp)
                  ELSE calculateVESPayment(amountUSD, isp, rate)
        den == result.den
        commission == applySystemCommission(isp, currency, rate, den)
        final == result.base + result.igtf + result.iva + commission
        left == applyAvailableBalance(final, InCurrency(balance, currency, rate, den), den)
    IN  [currency |-> currency, exchangeRate |-> toFixed2(rate, 10),
         originalAmount |-> toFixed2(final, den),
         amount |-> toFixed2(left.n, left.d),
         balanceApplied |-> IF left.d = 1 THEN toFixed2(final - left.n * den, den)
                            ELSE toFixed2(final - left.n, den),
         baseAmount |-> toFixed2(result.base, den), igtfAmount |-> toFixed2(result.igtf, den),
         ivaAmount |-> toFixed2(result.iva, den), systemCommission |-> toFixed2(commission, den)]
=============================================================================
