------------------------------- MODULE FileClient ------------------------------
(* What lies between a result file and its user: the cursor over it          *)
(* (FileCursor), and the conversions of its text, its values and their types *)
(* and of parameters (Conversions), which read no state and keep none.  A    *)
(* behaviour is about the one or the other; the initial state chooses.       *)
EXTENDS FileCursor

CONSTANTS
  MARKER, Numbers, FloatText, Decimals, Names,  \* see Conversions
  Tables, Types, Parameters

VARIABLES input, result

C == INSTANCE Conversions

conversionVars == <<input, result>>
clientVars == <<vars, conversionVars>>

NoConversion == input = [kind |-> "none"] /\ result = NULL

(* A cursor that nobody uses, no matter which. *)
Unused == CHOOSE f \in {<<c, Kept(c, o), q>> : c \in Classes, o \in Options, q \in Results} : TRUE
NoCursor == class = Unused[1] /\ opts = Unused[2] /\ query = Unused[3] /\ Init

ClientInit == (Init /\ NoConversion) \/ (NoCursor /\ C!Init)

CursorStep == input.kind = "none" /\ Next /\ UNCHANGED conversionVars
Conversion == C!Next /\ UNCHANGED vars
ClientNext == CursorStep \/ Conversion

ClientSpec == ClientInit /\ [][ClientNext]_clientVars
--------------------------------------------------------------------------------
(* The properties of FileCursor hold here as well; those of Conversions:     *)

(* A result file is read back as it was written: NULL is not the empty       *)
(* string, quotes, delimiters and newlines within a value stay its own, and  *)
(* binary columns have their NULLs marked.                                   *)
TableIsReadBack == C!TableIsReadBack

(* The type hint that Trino or Hive writes for a type is read as that type.  *)
TypeIsReadBack == C!TypeIsReadBack

(* Whatever its nesting, a value that comes as Athena's text is the value it *)
(* was, but for what ArrayOfArrays and ReadByJson admit.                     *)
ValueIsKept == C!ValueIsKept

(* The engine reads the very strings out of the literals that parameters     *)
(* became.                                                                   *)
LiteralsAreTheValues == C!LiteralsAreTheValues
================================================================================
