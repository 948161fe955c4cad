----------------------------- MODULE Storefront -----------------------------
(***************************************************************************)
(* What a customer meets at one store (internal/modules/inventory and the  *)
(* zones of internal/modules/delivery): the store, its products and its    *)
(* delivery zones, which the owner changes a row at a time, the saved      *)
(* location of the customer, and the coverage lookup, which reads them in  *)
(* three statements.  What a zone or a location is called is left out.     *)
(***************************************************************************)
EXTENDS RequestBase, Naturals, FiniteSets

CONSTANTS
  Products,
  Prices,
  Zones,    \* zone ids (bound)
  Cities    \* a city and its country, compared in lower case

Kind == {"product", "zone", "location"}
Quantities == 0..1

ASSUME StorefrontAssumption == None \notin Prices /\ None \notin Cities

VARIABLES
  shop,     \* "none", "open" or "closed" (is_active = false)
  product,  \* [Products -> [price, stock, available]], price None when it is not listed
  zone,     \* [Zones -> [city, active]], city None without a row
  location, \* the city of the customer's saved location, None without one
  inquiry   \* [at, city, truths, changed]: the coverage lookup; truths are the answers
            \* that were right at some moment of it, changed whether a zone has changed

factVars == <<shop, product, zone, location>>
storefrontVars == <<factVars, inquiry>>

NoProduct == [price |-> None, stock |-> 0, available |-> FALSE]
NoZone == [city |-> None, active |-> FALSE]
NoInquiry == [at |-> "idle", city |-> None, truths |-> {}, changed |-> FALSE]

StorefrontInit ==
  /\ shop = "none"
  /\ product = [p \in Products |-> NoProduct]
  /\ zone = [z \in Zones |-> NoZone]
  /\ location = None
  /\ inquiry = NoInquiry

-----------------------------------------------------------------------------
(* The owner. *)

CreateStore ==
  /\ shop = "none"
  /\ shop' = "open"
  /\ UNCHANGED <<product, zone, location>>

\* A store that is closed stays so: UpdateStore does not find it and nothing opens it.
DeactivateStore ==
  /\ shop = "open"
  /\ shop' = "closed"
  /\ UNCHANGED <<product, zone, location>>

SetProduct(p, row) ==
  /\ product' = [product EXCEPT ![p] = row]
  /\ UNCHANGED <<shop, zone, location>>

\* One row per store and platform product; a closed store is stocked like an open one.
AddProduct(p, price, quantity) ==
  /\ shop # "none" /\ product[p] = NoProduct
  /\ SetProduct(p, [price |-> price, stock |-> quantity, available |-> TRUE])

UpdateStock(p, quantity) == product[p] # NoProduct /\ SetProduct(p, [product[p] EXCEPT !.stock = quantity])

UpdateVendorPrice(p, price) == product[p] # NoProduct /\ SetProduct(p, [product[p] EXCEPT !.price = price])

SetAvailability(p, available) ==
  product[p] # NoProduct /\ SetProduct(p, [product[p] EXCEPT !.available = available])

SetZone(z, row) ==
  /\ zone' = [zone EXCEPT ![z] = row]
  /\ UNCHANGED <<shop, product, location>>

\* ux_store_delivery_zones_city_country
CityIsFree(z, city) == \A other \in Zones \ {z} : zone[other].city # city

CreateZone(z, city, active) ==
  /\ shop # "none" /\ zone[z] = NoZone /\ CityIsFree(z, city)
  /\ SetZone(z, [city |-> city, active |-> active])

\* Read, and written as a whole: of two updates the last one stands.
UpdateZone(z, city, active) ==
  /\ zone[z] # NoZone /\ CityIsFree(z, city)
  /\ SetZone(z, [city |-> city, active |-> active])

DeleteZone(z) == zone[z] # NoZone /\ SetZone(z, NoZone)

\* The customer saves, changes or deletes his location, see DeliveryLocations.
SetLocation(city) ==
  /\ location' = city
  /\ UNCHANGED <<shop, product, zone>>

FactsNext ==
  \/ CreateStore \/ DeactivateStore
  \/ \E p \in Products :
       \/ \E price \in Prices : UpdateVendorPrice(p, price) \/ \E q \in Quantities : AddProduct(p, price, q)
       \/ \E q \in Quantities : UpdateStock(p, q)
       \/ \E available \in BOOLEAN : SetAvailability(p, available)
  \/ \E z \in Zones :
       \/ \E city \in Cities, active \in BOOLEAN : CreateZone(z, city, active) \/ UpdateZone(z, city, active)
       \/ DeleteZone(z)
  \/ \E city \in Cities \cup {None} : SetLocation(city)

-----------------------------------------------------------------------------
(* What a customer is told. *)

\* ListAvailableStorefrontProducts, one statement; the platform product is active.
Listed(p) == shop = "open" /\ product[p].available /\ product[p].stock > 0

BugCoversAnyZone(city) == \E z \in Zones : zone[z].city = city

\* FindActiveByStoreCity, and the same question in the order handler.
Covers(city) == \E z \in Zones : zone[z].city = city /\ zone[z].active

HasAnyForStore == \E z \in Zones : zone[z] # NoZone

\* What is true of the store and a city.
Coverage(city) ==
  IF shop # "open" THEN "NOT_FOUND"
  ELSE IF \E z \in Zones : zone[z] = [city |-> city, active |-> TRUE] THEN "COVERED"
  ELSE IF zone = [z \in Zones |-> NoZone] THEN "NOT_CONFIGURED"
  ELSE "CITY_NOT_COVERED"

\* The store has been found.
CheckEligibility(city) ==
  /\ inquiry.at \notin {"found", "no zone"}
  /\ inquiry' = [at |-> IF shop = "open" THEN "found" ELSE "NOT_FOUND", city |-> city,
                 truths |-> {Coverage(city)}, changed |-> FALSE]
  /\ UNCHANGED factVars

FindActiveByStoreCity ==
  /\ inquiry.at = "found"
  /\ inquiry' = [inquiry EXCEPT !.at = IF Covers(inquiry.city) THEN "COVERED" ELSE "no zone"]
  /\ UNCHANGED factVars

AnyZones ==
  /\ inquiry.at = "no zone"
  /\ inquiry' = [inquiry EXCEPT !.at = IF HasAnyForStore THEN "CITY_NOT_COVERED" ELSE "NOT_CONFIGURED"]
  /\ UNCHANGED factVars

\* The answer is given or the request fails.
InquiryEnds ==
  /\ inquiry # NoInquiry
  /\ inquiry' = NoInquiry
  /\ UNCHANGED factVars

\* The owner and the customer go on meanwhile.
InquiryOvertaken ==
  IF inquiry.at \in {"found", "no zone"}
  THEN \E city \in Cities :
         /\ city = inquiry.city
         /\ inquiry' = [inquiry EXCEPT !.truths = @ \cup {Coverage(city)'}, !.changed = @ \/ zone' # zone]
  ELSE UNCHANGED inquiry

StorefrontNext ==
  \/ FactsNext /\ InquiryOvertaken
  \/ \E city \in Cities : CheckEligibility(city)
  \/ FindActiveByStoreCity \/ AnyZones \/ InquiryEnds

StorefrontSpec == StorefrontInit /\ [][StorefrontNext]_storefrontVars

-----------------------------------------------------------------------------

StorefrontTypeOK ==
  /\ shop \in {"none", "open", "closed"}
  /\ product \in [Products -> [price : Prices \cup {None}, stock : Quantities, available : BOOLEAN]]
  /\ zone \in [Zones -> [city : Cities \cup {None}, active : BOOLEAN]]
  /\ location \in Cities \cup {None}
  /\ inquiry.at \in {"idle", "found", "no zone", "NOT_FOUND", "COVERED", "NOT_CONFIGURED", "CITY_NOT_COVERED"}
  /\ inquiry.city \in Cities \cup {None}

\* Though three statements make it up, the answer to a coverage lookup was right at
\* some moment of it, unless a zone changed between them.
CoverageWasTrue ==
  inquiry.at \notin {"idle", "found", "no zone"} => inquiry.at \in inquiry.truths \/ inquiry.changed
=============================================================================
