--------------------------------- MODULE Money ---------------------------------
(***************************************************************************)
(* The arithmetic that estimates and invoices share, in integer cents.     *)
(***************************************************************************)
EXTENDS Integers

\* Math.round(subtotal * 0.1): ten percent, halves rounded up.  The double 0.1
\* is slightly above one tenth, so no half is ever rounded down.
Tax(subtotal) == (subtotal + 5) \div 10

\* subtotal + taxAmount - discountAmount: negative for a discount above the sum.
Total(subtotal, discount) == subtotal + Tax(subtotal) - discount

\* The discounts a role may grant on an invoice.
MayDiscount(role, amount) ==
  amount > 0 =>
    CASE role = "TECHNICIAN"     -> FALSE
      [] role = "FRONT_DESK"     -> amount <= 2000
      [] role = "BRANCH_MANAGER" -> amount <= 5000
      [] OTHER                   -> TRUE
=============================================================================
