----------------------------- MODULE InputRules -----------------------------
(***************************************************************************)
(* The trusted-boundary rules (core/security/validation.py) that a topic   *)
(* and a search query meet, and the sanitiser (core/security/sanitiser.py) *)
(* that untrusted text meets.  A direct input is what the rules look at:   *)
(* whether a control character is in it and how long it is once trimmed.   *)
(* An untrusted text is of one of five kinds.                              *)
(***************************************************************************)
EXTENDS Integers

CONSTANTS
  MAX_TOPIC_LEN,  \* longest topic, trimmed
  MAX_QUERY_LEN   \* longest search query, trimmed

ASSUME InputAssumption == MAX_TOPIC_LEN \in Nat \ {0} /\ MAX_QUERY_LEN \in Nat \ {0}

\* What there is to ask for: nothing, a longest accepted text and one longer.
TextInput(cap) == [control : BOOLEAN, length : {0, cap, cap + 1}]
TopicInput == TextInput(MAX_TOPIC_LEN)
SearchQueryInput == TextInput(MAX_QUERY_LEN)

RejectControlChars(text) == text.control
RejectIfEmpty(text) == text.length = 0

RejectIfTooLong(text, cap) == text.length > cap

ValidText(text, cap) ==
  ~RejectControlChars(text) /\ ~RejectIfEmpty(text) /\ ~RejectIfTooLong(text, cap)

ValidTopic(topic) == ValidText(topic, MAX_TOPIC_LEN)
ValidQuery(query) == ValidText(query, MAX_QUERY_LEN)

-----------------------------------------------------------------------------
(* sanitize_untrusted_text: normalise, neutralise, cap, in this order. *)

\* A phrasing the patterns know is "phrased"; one hidden from them by invisible
\* or compatibility characters is "disguised".
RawTexts == {"plain", "phrased", "disguised", "long"}
SafeTexts == {"plain", "redacted", "capped"}

NormaliseText(text) == IF text = "disguised" THEN "phrased" ELSE text
NeutraliseInjections(text) == IF text = "phrased" THEN "redacted" ELSE text
CapLength(text) == IF text = "long" THEN "capped" ELSE text

\* Mutant: the patterns are matched before the text is normalised.
SanitizeUnordered(text) == CapLength(NormaliseText(NeutraliseInjections(text)))

SanitizeUntrustedText(text) == CapLength(NeutraliseInjections(NormaliseText(text)))
=============================================================================
