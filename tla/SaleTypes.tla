------------------------------ MODULE SaleTypes ------------------------------
(* The enums of the schema that several modules share. *)

SaleStatus == {"PENDING", "CONFIRMED", "PICKED", "PACKED", "SHIPPED",
               "DELIVERED", "COMPLETED", "CANCELLED", "REFUNDED",
               "PARTIALLY_RETURNED", "PENDING_VALIDATION", "VALIDATED",
               "SENT_FOR_VALIDATION"}

PaymentStatus == {"UNPAID", "PARTIAL", "PAID", "OVERDUE", "REFUNDED"}

OrderStatus == {"SENT_FOR_VALIDATION", "PENDING_VALIDATION", "VALIDATED",
                "PICKED", "PACKED", "SHIPPED", "DELIVERED", "CANCELLED"}

\* The statuses that PATCH /sales/:id/status lets a sale move to from each one.
StatusTransitions == [
    PENDING             |-> {"CONFIRMED", "CANCELLED"},
    CONFIRMED           |-> {"PICKED", "CANCELLED"},
    PICKED              |-> {"PACKED", "CANCELLED"},
    PACKED              |-> {"SHIPPED", "CANCELLED"},
    SHIPPED             |-> {"DELIVERED", "CANCELLED"},
    DELIVERED           |-> {"COMPLETED"},
    COMPLETED           |-> {},
    CANCELLED           |-> {},
    REFUNDED            |-> {},
    PARTIALLY_RETURNED  |-> {"COMPLETED", "REFUNDED", "CANCELLED"},
    PENDING_VALIDATION  |-> {"VALIDATED", "CANCELLED"},
    VALIDATED           |-> {"CONFIRMED", "CANCELLED"},
    SENT_FOR_VALIDATION |-> {"PENDING_VALIDATION", "CANCELLED"}]
=============================================================================
