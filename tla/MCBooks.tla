-------------------------------- MODULE MCBooks ---------------------------------
(* The books of a purchase (Pricing), the suggestions of passengers            *)
(* (Suggestions) and the reports made of either (Reports), each in behaviours  *)
(* of its own; the first state chooses.                                        *)
EXTENDS MCPricing, MCSuggestions, Reports

VARIABLE part

AnOrder == Order("tickets", <<45>>, NoTags, "none", {}, 0, 0, 0, Unlimited, FALSE)

BooksInit ==
  /\ PricingInit /\ SuggestInit /\ ReportInit
  /\ \/ part = "pricing" /\ rd.kind = "csv"
     \/ part = "reports" /\ order = AnOrder
     \/ part = "suggestions" /\ order = AnOrder /\ rd.kind = "csv"

BooksNext ==
  \/ part = "pricing" /\ PricingNext /\ UNCHANGED <<part, reportVars, suggestionVars>>
  \/ part = "reports" /\ ReportNext /\ UNCHANGED <<part, pricingVars, suggestionVars>>
  \/ part = "suggestions" /\ SuggestNext /\ UNCHANGED <<part, pricingVars, reportVars>>

BooksSpec == BooksInit /\ [][BooksNext]_<<part, pricingVars, reportVars, suggestionVars>>
===============================================================================
