----------------------------------- MODULE Tax -----------------------------------
(***************************************************************************)
(* Tax (service/app/tax.py), the rules it reads (rules.py) and the sales   *)
(* of other channels it adds (other_sales.py).  A tax year is named by its *)
(* first day, and a date in one is so many days after it.                  *)
(***************************************************************************)
EXTENDS Ledger

CONSTANTS
  RULE,           \* reference_rules: a set of [set, key, from, to, amount, after]; to 0 is null
  TaxYearStart    \* the first days of the tax years

ASSUME TaxAssumption == TaxYearStart \subseteq Int

InForce(rule, day) == rule.from <= day /\ (rule.to = 0 \/ rule.to >= day)

\* list_rules
Rules(set, on) == {r \in RULE : InForce(r, on) /\ (set = None \/ r.set = set)}

\* The tax year a request names, or the one that is current.
YearOf(year) == IF year # None THEN year ELSE Max({y \in TaxYearStart : y <= Today})

-------------------------------------------------------------------------------
(* get_vat_monitor: the ledger, other channels, whether there are any, the rule. *)

\* _twelve_months(): the current month and the eleven before it.
TwelveMonths ==
  {m \in MonthStart : m <= Today /\ Cardinality({n \in MonthStart : m < n /\ n <= Today}) < 12}

VatMonitor(grossDb, otherDb, anyDb) ==
  LET months == TwelveMonths
      window == Min(months)
      gross(m) == Amount({e \in Within(grossDb.ledger, {"gross_sales"}) : e.day >= window /\ MonthOf(e.day) = m})
      other(m) == MapThenSumSet(LAMBDA o : o.gross, {o \in otherDb.others : o.month = m})
      turnover == MapThenSumSet(LAMBDA m : gross(m) + other(m), months)
      rules == {r \in RULE : r.set = "vat" /\ r.key = "registration_threshold" /\ InForce(r, Today)}
      rule == CHOOSE r \in rules : \A q \in rules : q.from <= r.from
  IN  IF rules = {} THEN [error |-> "vat_unconfigured"]
      ELSE [error |-> "none",
            months |-> [m \in months |-> [tiktok |-> gross(m), other |-> other(m)]],
            turnover |-> turnover,
            headroom |-> rule.amount - turnover,
            above_threshold |-> turnover >= rule.amount,
            includes_other_channels |-> anyDb.others # {}]

-------------------------------------------------------------------------------
(* The profile, and what is derived of it and of the rules. *)

\* put_tax_profile: a full replacement, refused without the date of a registration.
ProfileRefused(profile) == profile.vat_registered /\ profile.vat_registered_from = None

PutTaxProfile(db, profile) ==
  [db EXCEPT !.profile = IF profile.vat_registered THEN profile
                         ELSE [profile EXCEPT !.vat_registered_from = None]]

\* get_set_aside: no amount either way.
SetAside(db) == [reason |-> IF db.profile = None THEN "no_tax_profile" ELSE "none"]

\* get_tax_dates: a rule whose value is no date is left out.
TaxDates(year) ==
  LET start == YearOf(year)
      named == {r \in RULE : r.set = "income_tax" /\ r.key = "date" /\ InForce(r, start)}
  IN  {[rule |-> r, date |-> start + r.after] : r \in {r \in named : r.after # None}}

\* quarterly_check
QuarterlyCheck(gross, year) ==
  LET rules == {r \in RULE : /\ r.set \in {"mtd", "income_tax", "national_insurance"}
                             /\ r.key = "threshold" /\ r.amount # None
                             /\ InForce(r, YearOf(year))}
  IN  IF gross < 0 THEN [error |-> "validation_failed"]
      ELSE [error |-> "none",
            thresholds |-> {[rule |-> r, above_threshold |-> gross >= r.amount,
                             headroom |-> r.amount - gross] : r \in rules}]

-------------------------------------------------------------------------------
(* other_sales.py *)

\* A period's months are those its two days are in.
OtherSales(db, from, to) ==
  LET shown == {o \in db.others : MonthOf(from) <= o.month /\ o.month <= MonthOf(to)}
      total(m) == MapThenSumSet(LAMBDA o : o.gross, {o \in shown : o.month = m})
  IN  [m \in {o.month : o \in shown} |-> total(m)]

\* put_other_channel_sales: one figure for a channel's month, the last one given.
PutOtherSales(db, channel, month, gross) ==
  [db EXCEPT !.others = {o \in @ : o.channel # channel \/ o.month # month}
                          \cup {[channel |-> channel, month |-> month, gross |-> gross]}]
===============================================================================
