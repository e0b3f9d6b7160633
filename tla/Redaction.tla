------------------------------ MODULE Redaction ------------------------------
(***************************************************************************)
(* What the knowledge base shows of e-mail addresses (crates/kb: Redactor, *)
(* collect_event_rows, search, entity_history).                            *)
(*                                                                         *)
(* A text is cut at every "@": what stands before the first one, how many  *)
(* times that was masked, and what follows each.  A mask is a salted token *)
(* in place of what stood before the first "@", so it can be masked again, *)
(* and tokens do not collide.                                              *)
(***************************************************************************)
EXTENDS Json

CONSTANTS
    Absent,      \* a column that was not selected
    Fragments,   \* what stands before, between and after the "@"s of a text
    MaxDepth     \* how deep a payload may be nested

Empty == ""
Contents == [local : Fragments \cup {Empty}, masks : Nat, rest : Seq(Fragments \cup {Empty})]
Payloads == JsonValues(Contents, MaxDepth)

\* EVENT_PII_FIELDS
PiiFields(kind) ==
    CASE kind = "contact.upserted" -> {"email"}
      [] kind = "email.sent" -> {"to", "cc"}
      [] OTHER -> {}

\* should_mask with default_context and privileged_context: clearance is granted
\* when the caller may have it and the configuration lets it.
Masking(ctx) == ctx.maskEmail /\ ~(ctx.allowed /\ ctx.admin)
Dropping(ctx) == ctx.drop /\ ~(ctx.allowed /\ ctx.admin)

\* split_once('@') with something on both sides
Splits(s) == s.local # Empty /\ s.rest # <<>> /\ s.rest # <<Empty>>

\* mask_email_string: what follows the first "@" stays, further addresses with it.
MaskText(v) == IF Splits(v.text) THEN [v EXCEPT !.text.masks = @ + 1] ELSE v

\* mask_email_value: lists are gone through, objects are not.
MaskValue(v) ==
    LET mask[w \in Payloads] ==
          CASE w.t = "text" -> MaskText(w)
            [] w.t \notin {"text", "array"} -> w
            [] OTHER -> [w EXCEPT !.parts = [i \in DOMAIN w.parts |-> mask[w.parts[i]]]]
    IN mask[v]

\* Mutant: the objects of a list are left out.
MaskDeepObjects(v) ==
    LET mask[w \in Payloads] ==
          CASE w.t \in {"text", "array"} -> MaskValue(w)
            [] w.t \notin {"text", "array", "object"} -> w
            [] OTHER -> [w EXCEPT !.parts = [i \in DOMAIN w.parts |-> mask[w.parts[i]]]]
    IN mask[v]

\* mask_value_emails_deep
MaskDeep(v) ==
    LET mask[w \in Payloads] ==
          CASE w.t = "text" -> MaskText(w)
            [] w.t \notin {"text", "array", "object"} -> w
            [] OTHER -> [w EXCEPT !.parts = [i \in DOMAIN w.parts |-> mask[w.parts[i]]]]
    IN mask[v]

\* mask_payload_for_kind
MaskPayload(kind, payload) ==
    IF payload.t # "object" THEN payload
    ELSE [payload EXCEPT !.parts = [i \in DOMAIN payload.parts |->
             IF payload.keys[i] \in PiiFields(kind) THEN MaskValue(payload.parts[i]) ELSE payload.parts[i]]]

\* The texts of a value, however deep in it; the keys of its objects are no values.
Texts(v) ==
    LET texts[w \in Payloads] ==
          CASE w.t = "text" -> {w.text}
            [] w.t \notin {"text", "array", "object"} -> {}
            [] OTHER -> UNION {texts[w.parts[i]] : i \in DOMAIN w.parts}
    IN texts[v]

\* collect_event_rows for one row: the columns named for e-mail are masked; a payload
\* by the fields of its kind, if that was selected, and then all over.
ShownRow(row, ctx) ==
    IF ~Masking(ctx) THEN row
    ELSE [kind |-> row.kind,
          email |-> IF row.email = Absent THEN Absent ELSE MaskValue(row.email),
          payload |-> IF row.payload = Absent THEN Absent
                      ELSE MaskDeep(IF row.kind = Absent THEN row.payload ELSE MaskPayload(row.kind, row.payload))]

\* The flag of a row: a text was masked in it (did_mask of mask_email_string).
Masked(row, ctx) ==
    Masking(ctx) /\ \E cell \in {row.email, row.payload} \ {Absent} : \E s \in Texts(cell) : Splits(s)

\* The rows of the answer with the flag of each.
Rows(row, ctx) ==
    IF Masked(row, ctx) /\ Dropping(ctx) THEN <<>>
    ELSE <<[row |-> ShownRow(row, ctx), masked |-> Masked(row, ctx)]>>

\* search: the address of a contact; entity_history: the listed fields only.
ContactHit(email, ctx) == IF Masking(ctx) THEN MaskText(email) ELSE email
HistoryPayload(kind, payload, ctx) == IF Masking(ctx) THEN MaskPayload(kind, payload) ELSE payload

-----------------------------------------------------------------------------
(* Properties *)

\* Who has no clearance sees no text of an e-mail column or a payload, however deep
\* in it, with what stood before its first "@" where there is something on both sides
\* of that; a row is flagged iff the answer differs from what is stored, and who has
\* clearance gets every row as it is.
LocalPartsAreMasked(row, ctx) ==
    \A r \in {Rows(row, ctx)[i] : i \in DOMAIN Rows(row, ctx)} :
        /\ r.masked <=> r.row # row
        /\ ctx.maskEmail /\ ~(ctx.allowed /\ ctx.admin) =>
             \A cell \in {r.row.email, r.row.payload} \ {Absent} :
                 \A s \in Texts(cell) : Splits(s) => s.masks > 0
        /\ ctx.allowed /\ ctx.admin => ~r.masked

\* An address stands in a text as it was stored.
Readable(s) ==
    LET words == <<s.local>> \o s.rest
    IN \E i \in 1..Len(s.rest) : /\ words[i] # Empty /\ words[i + 1] # Empty
                                 /\ i = 1 => s.masks = 0

\* The keys of the objects of a value, however deep in it.
Keys(v) ==
    LET keys[w \in Payloads] ==
          CASE w.t = "array" -> UNION {keys[w.parts[i]] : i \in DOMAIN w.parts}
            [] w.t = "object" -> {w.keys[i] : i \in DOMAIN w.keys}
                                   \cup UNION {keys[w.parts[i]] : i \in DOMAIN w.parts}
            [] OTHER -> {}
    IN keys[v]

\* Who has no clearance sees no address at all, be it in a text or a key
\* (docs/ops.md:159, docs/security-model.md:82).
NoAddressShown(row, ctx, addressKeys) ==
    ctx.maskEmail /\ ~(ctx.allowed /\ ctx.admin) =>
        \A r \in {Rows(row, ctx)[i] : i \in DOMAIN Rows(row, ctx)} :
            \A cell \in {r.row.email, r.row.payload} \ {Absent} :
                /\ \A s \in Texts(cell) : ~Readable(s)
                /\ Keys(cell) \cap addressKeys = {}

\* An address has one token wherever it is shown, so joins still work
\* (docs/security-model.md:83).
JoinsWork(row, ctx) ==
    LET shown == ShownRow(row, ctx)
        all == UNION {Texts(cell) : cell \in {shown.email, shown.payload} \ {Absent}}
    IN \A s, u \in all : s.local = u.local /\ s.rest = u.rest => s.masks = u.masks
=============================================================================
