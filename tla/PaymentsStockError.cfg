SPECIFICATION ReceiptSpec
CONSTANTS
    o1 = o1
    v1 = v1
    p1 = p1
    p2 = p2
    NoOrder = NoOrder
    NoPayment = NoPayment
    Orders = {o1}
    Payments = {p1, p2}
    Variants = {v1}
    Supply <- MCSupply
    MaxQuantity = 1
    LegacyOrders = {}
    LegacyLines <- MCLegacyLines
    RequestIds = {}
    MaxOrphans = 0
PROPERTY RefundedForLackOfStock
