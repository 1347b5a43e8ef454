----------------------------- MODULE Encryption -----------------------------
(***************************************************************************)
(* EncryptionService (encryption/encryption.service.ts), as far as callers *)
(* can tell: a field of a row or of a DTO is absent, a plain text or the   *)
(* cipher text of one.  encrypt throws on an absent text; decrypt throws   *)
(* on everything encrypt has not written, because the authentication tag   *)
(* does not match; a field that may throw is guarded by the predicates.    *)
(***************************************************************************)

Absent == [form |-> "absent", text |-> ""]    \* undefined, and NULL in a row
Plain(text) == [form |-> "plain", text |-> text]
Empty == Plain("")

Encrypts(field) == field.form # "absent"
encrypt(field) == [form |-> "cipher", text |-> field.text]

Decrypts(field) == field.form = "cipher"
decrypt(field) == Plain(field.text)

(* How JavaScript reads a field as a condition.                            *)
Truthy(field) == field \notin {Absent, Empty}

(* What prisma's update leaves in a field: undefined keeps what is there.  *)
Merged(old, field) == IF field = Absent THEN old ELSE field

(* update, in the settings and in the bank products: a text is encrypted,  *)
(* an empty one is not and replaces what was stored.                       *)
EncryptTruthy(field) == IF Truthy(field) THEN encrypt(field) ELSE field
=============================================================================
