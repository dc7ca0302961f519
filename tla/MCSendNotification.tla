--------------------------- MODULE MCSendNotification ---------------------------
(* SendNotification with four texts: "" is Blank, one is a word, two are numbers, *)
(* one of them followed by letters, which std::stof leaves alone.                 *)
EXTENDS SendNotification

const_Texts  == {"", "word", "7", "8x"}
const_Number == [t \in const_Texts |-> CASE t = "7" -> "7" [] t = "8x" -> "8" [] OTHER -> "none"]
===============================================================================
