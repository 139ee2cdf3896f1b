------------------------------- MODULE Charges -------------------------------
(***************************************************************************)
(* The journal lines of one agreement for one month: from the invoices and *)
(* the usage AWS reports for its accounts, by record type, to the lines    *)
(* MPT charges, and the rows of the billing report beside them.            *)
(*                                                                         *)
(* Money is in whole units, 10^-6 of the currency, and an exchange rate is *)
(* a whole number.  The days of the month are one day.                     *)
(***************************************************************************)
EXTENDS Integers, FiniteSets, FiniteSetsExt

CONSTANTS
    Linked,        \* linked accounts
    Payer,         \* the master payer account
    PlsPercent,    \* EXT_PLS_CHARGE_PERCENTAGE
    MaxGroups,     \* bound on the groups AWS reports for an account
    MaxInvoices    \* bound on the invoices of the month

ASSUME ChargesAssumption ==
    /\ Payer \notin Linked /\ PlsPercent \in Nat
    /\ MaxGroups \in Nat /\ MaxInvoices \in Nat

VARIABLES
    params,        \* the agreement's parameters
    invoice,       \* what is kept of the invoices: OrganizationInvoice
    usage,         \* usage_by_account: the metrics of an account
    lines,         \* the journal lines
    at

vars == <<params, invoice, usage, lines, at>>

Accounts == Linked \cup {Payer}
Enterprise == "AWS Support (Enterprise)"

(* Two roundings of the code: to the sixth decimal, half to even, and none. *)
Round(n, d) ==
    LET q == n \div d
        rest == 2 * (n % d)
    IN IF rest < d \/ (rest = d /\ q % 2 = 0) THEN q ELSE q + 1
Percent(amount, percentage) == Round(amount * percentage, 100)

-----------------------------------------------------------------------------
(* Invoices.  An invoice is of an entity, an invoicing and a billing one;   *)
(* it is paid in dollars or in a currency with a rate, and is primary if it *)
(* has the discount of the solution provider program.                       *)
Entities == {<<"inc", "AWS">>, <<"llc", "AWS">>}
Payments == {[currency |-> "USD", rate |-> 0], [currency |-> "EUR", rate |-> 2],
             [currency |-> "EUR", rate |-> 3]}
Currencies == {"USD", "EUR"}
Invoices == [entity : Entities, paid : Payments, primary : BOOLEAN, total : {0, 100}]

RatesIn(raw, currency) == {raw[i].paid.rate : i \in
    {k \in DOMAIN raw : raw[k].paid.currency = currency}}
RatesOf(raw, currency, name) == {raw[i].paid.rate : i \in
    {k \in DOMAIN raw : raw[k].paid.currency = currency /\ raw[k].entity[1] = name}}

(* get_rate: the highest rate of the entity's own invoices in the currency  *)
(* of the authorization, or else of anyone's.                               *)
ExchangeRate(raw, currency, name) ==
    LET own == RatesOf(raw, currency, name)
    IN Max((IF own # {} THEN own ELSE RatesIn(raw, currency)) \cup {0})

(* A mutant: the first invoice gives the currency.                          *)
BugFirstCurrency(raw, rate) == IF raw = <<>> THEN "USD" ELSE raw[1].paid.currency

(* get_payment_currency: of the first invoice with that rate.               *)
PaymentCurrency(raw, rate) ==
    LET same == {i \in DOMAIN raw : raw[i].paid.rate = rate}
    IN IF same = {} THEN "USD" ELSE raw[Min(same)].paid.currency

Entity(raw, currency, e) ==
    LET rate == ExchangeRate(raw, currency, e[1])
    IN [rate |-> rate, currency |-> PaymentCurrency(raw, rate)]

(* The amount of the first primary invoice; without one there is none.      *)
NoPrincipal == -1
Principal(raw) ==
    LET primary == {i \in DOMAIN raw : raw[i].primary}
    IN IF primary = {} THEN NoPrincipal ELSE raw[Min(primary)].total

OrganizationInvoice(raw, currency) ==
    [entities |-> [e \in {raw[i].entity : i \in DOMAIN raw} |-> Entity(raw, currency, e)],
     principal |-> Principal(raw)]

Known(e) == e \in DOMAIN invoice.entities

(* resolve_service_amount: what the journal charges for an amount.          *)
Resolved(amount, e) ==
    IF Known(e) /\ invoice.entities[e].currency # "USD" /\ invoice.entities[e].rate > 0
    THEN amount * invoice.entities[e].rate ELSE amount

(* _resolve_exchange_rate: the rate of the report's rows.                   *)
ReportRate(e) ==
    IF Known(e) /\ invoice.entities[e].rate > 0 THEN invoice.entities[e].rate ELSE 1

-----------------------------------------------------------------------------
(* Usage.  A group of a Cost Explorer report is a record type, a service    *)
(* and an amount, at most one of a type and a service.  Fees and support    *)
(* are the payer's.                                                         *)
Group(type, service, amounts) ==
    {[type |-> type, service |-> service, amount |-> x] : x \in amounts}

LinkedGroups ==
    Group("Usage", "EC2", {200, -100}) \cup Group("Credit", "EC2", {-200})
    \cup Group("SPP", "EC2", {-20}) \cup Group("SPCovered", "EC2", {100})
PayerGroups ==
    Group("Usage", "EC2", {100}) \cup Group("SPCovered", "EC2", {100, 200})
    \cup Group("Credit", Enterprise, {-100})
    \cup Group("Support", Enterprise, {0, 100}) \cup Group("SPP", Enterprise, {-10})
    \cup Group("SPFee", "Savings Plans", {5}) \cup Group("MARKETPLACE", "Tax", {40})
    \cup Group("MARKETPLACE", "SaaS", {60})
Groups(a) == IF a = Payer THEN PayerGroups ELSE LinkedGroups

Reports(groups, n) ==
    {r \in UNION {kSubset(k, groups) : k \in 0..n} :
        \A g, h \in r : g.type = h.type /\ g.service = h.service => g = h}

(* _create_metric: the entity of a metric is that of its service, if the    *)
(* report names one.                                                        *)
EntityOf(g) ==
    <<IF g.service = "EC2" THEN "llc" ELSE IF g.service = "Tax" THEN "" ELSE "inc",
      IF g.type = "MARKETPLACE" THEN "AWS_MARKETPLACE" ELSE "AWS">>

(* A group of zero is dropped.                                              *)
Metrics(report) == {[type |-> g.type, service |-> g.service, amount |-> g.amount,
                     entity |-> EntityOf(g)] : g \in {h \in report : h.amount # 0}}

AllMetrics == UNION {{<<a, m>> : m \in usage[a]} : a \in DOMAIN usage}
OfTypes(types) == {x \in AllMetrics : x[2].type \in types}

(* calculate_total_by_record_types, over any of the metrics.                *)
TotalOf(S) == SumFunction([x \in S |-> Resolved(x[2].amount, x[2].entity)])

(* has_enterprise_support: a metric of any type will do.                    *)
HasEnterprise == \E x \in AllMetrics : x[2].service = Enterprise

-----------------------------------------------------------------------------
(* The lines of the usage.  JournalLine.build: a charge of the organization *)
(* is the agreement's where its billing is split, and the payer's           *)
(* subscription's where it is not; any other is the account's.              *)
Line(about, account, sku, amount, ofOrganization) ==
    [about |-> about, account |-> account, sku |-> sku, amount |-> amount,
     to |-> IF ofOrganization /\ params.split THEN "agreement" ELSE account]

Ignored == {"Tax", "SPP", "SPCovered", "SPNegation"}
SppOf(a, service) == {m \in usage[a] : m.type = "SPP" /\ m.service = service}

(* _resolve_sku: usage has a discount of the program.                       *)
Sku(a, m) ==
    IF m.type \in {"Support", "Credit", "MARKETPLACE"} \/ SppOf(a, m.service) = {}
    THEN "additional" ELSE "usage"

PartnerLed == params.support = "PLS" /\ HasEnterprise

(* A mutant: the enterprise support of AWS is charged all the same.         *)
BugBillsEnterprise(m) ==
    /\ m.type \notin Ignored
    /\ ~(m.type = "MARKETPLACE" /\ m.service = "Tax")
    /\ ~(m.type = "SPFee" /\ params.split)

(* Which of the metrics make a line: not the program's enterprise support,  *)
(* not the marketplace's taxes, not the fee that is to be distributed.      *)
Billed(m) ==
    /\ m.type \notin Ignored
    /\ ~(m.type = "Support" /\ m.service = Enterprise /\ PartnerLed)
    /\ ~(m.type = "MARKETPLACE" /\ m.service = "Tax")
    /\ ~(m.type = "SPFee" /\ params.split)

UsageLine(a, m) ==
    Line(<<m.type, m.service>>, a, Sku(a, m), Resolved(m.amount, m.entity), FALSE)

(* A credit that leaves nothing to pay gives the discount back.             *)
Recovery(a) ==
    {Line(<<"recovery", m.service>>, a, "additional", Resolved(m.amount, m.entity), FALSE) :
        m \in {s \in usage[a] : /\ s.type = "SPP" /\ invoice.principal = 0
                                /\ \E c \in usage[a] : c.type = "Credit" /\ c.service = s.service}}

UsageLines ==
    UNION {{UsageLine(a, m) : m \in {x \in usage[a] : Billed(x)}} \cup Recovery(a) :
             a \in DOMAIN usage}

-----------------------------------------------------------------------------
(* The lines beside the usage.                                              *)
OrganizationLine(name, amount) == Line(<<name>>, Payer, "additional", amount, TRUE)
Minus(x) == IF x > 0 THEN -x ELSE x

(* A mutant: the invoice of zero does not matter.                           *)
BugIgnoresInvoice(name, applies, base) ==
    IF applies /\ params.discount > 0 /\ base # 0
    THEN {OrganizationLine(name, Minus(Percent(base, params.discount)))} ELSE {}

(* BaseExtraDiscountProcessor.process.                                      *)
Discount(name, applies, base) ==
    IF invoice.principal # 0 /\ applies /\ params.discount > 0 /\ base # 0
    THEN {OrganizationLine(name, Minus(Percent(base, params.discount)))} ELSE {}

UsageTypes == {"Usage", "Recurring", "SPFee"}
SppWhere(types) ==
    {x \in OfTypes({"SPP"}) : \E m \in usage[x[1]] : m.type \in types /\ m.service = x[2].service}

ServiceDiscount ==
    Discount("service discount", params.approved,
             TotalOf(IF params.discountType = "usage" THEN OfTypes(UsageTypes) ELSE SppWhere(UsageTypes)))
SupportDiscount ==
    Discount("support discount", params.approved /\ params.support = "RESOLD",
             TotalOf(SppWhere({"Support"})))
PlsDiscount ==
    Discount("PLS discount", params.approved /\ params.support = "PLS",
             TotalOf(OfTypes({"Usage"})))

(* PlSChargeProcessor.                                                      *)
PlsCharge ==
    LET base == TotalOf(OfTypes({"Usage"}))
    IN IF PartnerLed /\ invoice.principal # 0 /\ PlsPercent > 0 /\ base > 0
       THEN {OrganizationLine("PLS", Percent(base, PlsPercent))} ELSE {}

(* SavingPlansDistributionProcessor: each account's share of the fee is the *)
(* share of what the plans covered that was its own.                        *)
Fee == TotalOf(OfTypes({"SPFee"}))
CoveredOf(a) == SumFunction([m \in {x \in usage[a] : x.type = "SPCovered"} |-> m.amount])
Covered == {a \in DOMAIN usage : CoveredOf(a) > 0}
TotalCovered == SumFunction([a \in Covered |-> CoveredOf(a)])
Share(a) == Round(Fee * CoveredOf(a), TotalCovered)

(* A mutant: the fee is shared out however the agreement is billed.         *)
BugAlwaysShared ==
    {Line(<<"share">>, a, "usage", Share(a), FALSE) : a \in {b \in Covered : Share(b) # 0}}

Distribution ==
    IF params.split
    THEN {Line(<<"share">>, a, "usage", Share(a), FALSE) : a \in {b \in Covered : Share(b) # 0}}
    ELSE {}

AdditionalLines ==
    ServiceDiscount \cup SupportDiscount \cup PlsDiscount \cup PlsCharge \cup Distribution

-----------------------------------------------------------------------------
Params ==
    [support : {"PLS", "RESOLD"}, split : BOOLEAN, approved : BOOLEAN,
     discount : {0, 10}, discountType : {"usage", "spp"}, currency : Currencies]

Init ==
    /\ params \in Params
    /\ invoice = OrganizationInvoice(<<>>, "USD")
    /\ usage = [a \in {} |-> {}]
    /\ lines = {}
    /\ at = "invoices"

(* The invoices of the month that are of the payer.                         *)
ReadInvoices ==
    /\ at = "invoices"
    /\ \E n \in 0..MaxInvoices : \E raw \in [1..n -> Invoices] :
         invoice' = OrganizationInvoice(raw, params.currency)
    /\ at' = "usage"
    /\ UNCHANGED <<params, usage, lines>>

ReadAccount(a) ==
    /\ at = "usage" /\ a \notin DOMAIN usage
    /\ \E report \in Reports(Groups(a), MaxGroups - Cardinality(AllMetrics)) :
         usage' = [b \in DOMAIN usage \cup {a} |-> IF b = a THEN Metrics(report) ELSE usage[b]]
    /\ UNCHANGED <<params, invoice, lines, at>>

GenerateLines ==
    /\ at = "usage" /\ DOMAIN usage = Accounts
    /\ lines' = UsageLines \cup AdditionalLines
    /\ at' = "done"
    /\ UNCHANGED <<params, invoice, usage>>

Next ==
    \/ ReadInvoices
    \/ \E a \in Accounts : ReadAccount(a)
    \/ GenerateLines

Spec == Init /\ [][Next]_vars

-----------------------------------------------------------------------------
AmountOf(S) == SumFunction([l \in S |-> l.amount])
About(name) == {l \in lines : l.about[1] = name}
Discounts == About("service discount") \cup About("support discount") \cup About("PLS discount")
Abs(x) == IF x < 0 THEN -x ELSE x

(* What AWS bills for enterprise support is never charged beside the        *)
(* program's own, and one of the two is charged unless the month's usage,   *)
(* its invoice or the program's percentage comes to nothing: two processors *)
(* decide it apart, one with an account's metrics before it, the other with *)
(* the whole organization's.                                                *)
SupportChargedOnce ==
    LET resold == {l \in About("Support") : l.about[2] = Enterprise}
        asked == {x \in OfTypes({"Support"}) : x[2].service = Enterprise}
        led == About("PLS")
    IN at = "done" =>
        /\ resold = {} \/ led = {}
        /\ asked # {} /\ resold \cup led = {}
             => \/ invoice.principal = 0 \/ PlsPercent = 0
                \/ ~(TotalOf(OfTypes({"Usage"})) > 0)

(* The fee of the savings plans is charged once: whole to the payer, or     *)
(* shared out with no more lost or won than the rounding of each account's  *)
(* share.  Only where no account used what the plans cover is a split fee   *)
(* nobody's.                                                                *)
FeeBilledOnce ==
    LET charged == About("SPFee") \cup About("share")
    IN at = "done" =>
        IF ~params.split THEN AmountOf(charged) = Fee
        ELSE IF Covered = {} THEN charged = {}
        ELSE 2 * Abs(AmountOf(charged) - Fee) <= Cardinality(Covered)

(* The journal and the report beside it convert every amount alike, though  *)
(* one asks for the currency of the entity and the other does not.          *)
ConvertedAlike ==
    at = "done" => \A x \in AllMetrics :
        Resolved(x[2].amount, x[2].entity) = x[2].amount * ReportRate(x[2].entity)

(* The program's discount is passed on once: given back beside a credit, or *)
(* as the base of a discount of the agreement, never both.                  *)
DiscountGivenOnce == About("recovery") = {} \/ Discounts = {}

(* "Extra discount skips when principal amount is zero or none", as a test  *)
(* says.                                                                    *)
NoInvoiceNoDiscount == invoice.principal = NoPrincipal => Discounts = {}
==============================================================================
