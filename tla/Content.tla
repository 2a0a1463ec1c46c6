-------------------------------- MODULE Content --------------------------------
(***************************************************************************)
(* What staff publish on the home page: the one cover (HomeHero) and the   *)
(* one active made-to-measure service (CustomDressService), through the    *)
(* Django admin, and what the two public views and the page's adapters     *)
(* make of it.                                                             *)
(*                                                                         *)
(* A form's request checks what it would save against the committed rows,  *)
(* then saves: a transaction under READ COMMITTED whose select_for_update  *)
(* and unique indexes meet other requests.  Uploaded files are Media's     *)
(* subject; here a row has one or not.                                     *)
(***************************************************************************)
EXTENDS Naturals, FiniteSets

CONSTANTS
    Services,   \* primary keys of CustomDressService
    Heroes,     \* primary keys of HomeHero
    Editors     \* forms being saved at a time

VARIABLES
    services,   \* the committed rows by key: none or one in a set
    heroes,     \* likewise
    form        \* form[e]: what an editor is saving

contentVars == <<services, heroes, form>>

-------------------------------------------------------------------------------
(* Fields and their validators *)

\* Text is "<" or ">" away from plain; a number may be of digits JavaScript does not know.
Text == {"", "plain", "markup"}
Phone == {"", "digits", "other_digits", "+digits"}
ServiceRow == [text: Text, message: Text, phone: Phone, active: BOOLEAN]
HeroRow == [title: {"", "plain"}, media_type: {"IMAGE", "VIDEO"}, image: BOOLEAN, video: BOOLEAN]

\* value.isascii() and value.isdigit()
isascii(phone) == phone # "other_digits"
isdigit(phone) == phone \in {"digits", "other_digits"}
validate_whatsapp_phone(phone) == isascii(phone) /\ isdigit(phone)
validate_plain_text(text) == text # "markup"

\* full_clean of the form, but for the constraints.
service_clean(s) ==
    /\ "" \notin {s.text, s.message, s.phone}
    /\ validate_whatsapp_phone(s.phone)
    /\ validate_plain_text(s.text) /\ validate_plain_text(s.message)
hero_clean(h) ==
    /\ h.title # ""
    /\ h.image = (h.media_type = "IMAGE") /\ h.video = (h.media_type = "VIDEO")

-------------------------------------------------------------------------------
(* Rows and forms *)

Active == {k \in Services : \E s \in services[k] : s.active}
HeroRows == {k \in Heroes : heroes[k] # {}}

Blank == [step |-> "blank"]
Fills(e, step, key, data, locked) ==
    form' = [form EXCEPT ![e] = [step |-> step, key |-> key, data |-> data, locked |-> locked]]
Leaves(e) == form' = [form EXCEPT ![e] = Blank]
At(e, step) == form[e].step = step

\* Rows under another editor's select_for_update.
LockedByOthers(e) == UNION {form[o].locked : o \in {o \in Editors \ {e} : At(o, "locked")}}

\* The request is refused or its process dies: its transaction leaves nothing.
Abandon(e) == ~At(e, "blank") /\ Leaves(e) /\ UNCHANGED <<services, heroes>>

-------------------------------------------------------------------------------
(* CustomDressService *)

\* validate_constraints: an active service is refused while another is active.
SubmitService(e, k, s) ==
    /\ At(e, "blank") /\ service_clean(s)
    /\ s.active => Active \subseteq {k}
    /\ Fills(e, "service", k, s, {})
    /\ UNCHANGED <<services, heroes>>

\* save: the other active rows are locked, to be deactivated.
LockActive(e) ==
    LET others == IF form[e].data.active THEN Active \ {form[e].key} ELSE {}
    IN  /\ At(e, "service") /\ others \cap LockedByOthers(e) = {}
        /\ Fills(e, "locked", form[e].key, form[e].data, others)
        /\ UNCHANGED <<services, heroes>>

Deactivated(keys) ==
    [k \in Services |-> IF k \in keys THEN {[s EXCEPT !.active = FALSE] : s \in services[k]}
                                      ELSE services[k]]

\* unique_active_custom_dress_service, against rows committed since.
unique_active(e) ==
    form[e].data.active => Active \subseteq form[e].locked \cup {form[e].key}

SaveService(e) ==
    /\ At(e, "locked") /\ form[e].key \notin LockedByOthers(e)
    /\ unique_active(e)
    /\ services' = [Deactivated(form[e].locked) EXCEPT ![form[e].key] = {form[e].data}]
    /\ Leaves(e) /\ UNCHANGED heroes

\* IntegrityError: the deactivation is undone with the save.
\* Defect: save without transaction.atomic.
ServiceConflictKeeping(e) ==
    /\ At(e, "locked") /\ ~unique_active(e)
    /\ services' = Deactivated(Active \ {form[e].key})
    /\ Leaves(e) /\ UNCHANGED heroes
ServiceConflict(e) ==
    /\ At(e, "locked") /\ ~unique_active(e)
    /\ Leaves(e) /\ UNCHANGED <<services, heroes>>

DeleteService(k) ==
    /\ services[k] # {} /\ \A e \in Editors : k \notin LockedByOthers(e)
    /\ services' = [services EXCEPT ![k] = {}]
    /\ UNCHANGED <<heroes, form>>

-------------------------------------------------------------------------------
(* HomeHero *)

\* has_add_permission, and single_home_hero_configuration as the form checks it.
SubmitHero(e, k, h) ==
    /\ At(e, "blank") /\ hero_clean(h) /\ HeroRows \subseteq {k}
    /\ Fills(e, "hero", k, h, {})
    /\ UNCHANGED <<services, heroes>>

single_home_hero(e) == HeroRows \subseteq {form[e].key}

SaveHero(e) ==
    /\ At(e, "hero") /\ single_home_hero(e)
    /\ heroes' = [heroes EXCEPT ![form[e].key] = {form[e].data}]
    /\ Leaves(e) /\ UNCHANGED services
HeroConflict(e) ==
    /\ At(e, "hero") /\ ~single_home_hero(e)
    /\ Leaves(e) /\ UNCHANGED <<services, heroes>>

DeleteHero(k) ==
    /\ heroes[k] # {}
    /\ heroes' = [heroes EXCEPT ![k] = {}]
    /\ UNCHANGED <<services, form>>

-------------------------------------------------------------------------------
(* From a row to the page *)

\* The views: the first row, if there is one (204), with the serializers' URLs.
get_media_url(h) ==
    IF (h.media_type = "IMAGE" /\ h.image) \/ (h.media_type = "VIDEO" /\ h.video)
    THEN "https" ELSE "null"
hero_view == UNION {{[title |-> h.title, media_url |-> get_media_url(h)] : h \in heroes[k]} :
                       k \in HeroRows}
service_view == UNION {services[k] : k \in Active}

isSafeHeroUrl(url) == url = "https"
adaptHomeHero(raw) == raw.title # "" /\ isSafeHeroUrl(raw.media_url)
\* The page's pattern is [0-9]{8,15}; the four steps are the serializer's.
adaptCustomDressService(raw) ==
    raw.text # "" /\ raw.phone = "digits" /\ raw.message # ""

-------------------------------------------------------------------------------
(* Specification *)

ContentInit ==
    /\ services = [k \in Services |-> {}]
    /\ heroes = [k \in Heroes |-> {}]
    /\ form = [e \in Editors |-> Blank]

ContentNext ==
    \/ \E e \in Editors :
        \/ \E k \in Services, s \in ServiceRow : SubmitService(e, k, s)
        \/ \E k \in Heroes, h \in HeroRow : SubmitHero(e, k, h)
        \/ LockActive(e) \/ SaveService(e) \/ ServiceConflict(e)
        \/ SaveHero(e) \/ HeroConflict(e) \/ Abandon(e)
    \/ \E k \in Services : DeleteService(k)
    \/ \E k \in Heroes : DeleteHero(k)

ContentSpec == ContentInit /\ [][ContentNext]_contentVars

-------------------------------------------------------------------------------
(* Properties *)

\* Whatever forms race, one service at most is active and one cover exists.
OneOfEach == Cardinality(Active) <= 1 /\ Cardinality(HeroRows) <= 1

\* What the forms accept is what the page shows: neither a cover nor an active
\* service is published that its adapter turns down.
PublishedIsShown ==
    /\ \A raw \in hero_view : adaptHomeHero(raw)
    /\ \A raw \in service_view : adaptCustomDressService(raw)

\* The shop loses its active service only to an edit or a deletion of that very
\* service: an activation that fails has not deactivated the one before.
HandoverIsAtomic ==
    [][\A k \in Active : Active' = {} =>
        \/ DeleteService(k)
        \/ \E e \in Editors : SaveService(e) /\ form[e].key = k]_contentVars

\* An activation is taken while another service is active, which it deactivates.
ActivationReplaces ==
    \A e \in Editors, k \in Services, s \in ServiceRow :
        At(e, "blank") /\ service_clean(s) => ENABLED SubmitService(e, k, s)
===============================================================================
